---------------------------- MODULE Spec2Model ----------------------------
(***************************************************************************)
(* Scheduling core of neomediapi: conflict detection between bookings,     *)
(* the booking and medical-record status machines, slot generation and     *)
(* availability resolution, modelled from the services and repositories.   *)
(*                                                                         *)
(* Time is counted in minutes.  A date is a day number (day 0 is a         *)
(* Monday), a time of day is a minute in 0 .. MinutesPerDay - 1, and a     *)
(* datetime is date * MinutesPerDay + time of day.                         *)
(***************************************************************************)
EXTENDS Integers, Sequences, FiniteSets, TLC

VARIABLES
    appointments,    \* table appointments: sequence of rows, id = index
    medical_records, \* table medical_records: sequence of rows, id = index
    availabilities,  \* table professional_availabilities
    schedules,       \* table facility_schedules
    recurring_reservations, \* table recurring_reservations
    session,         \* the generate call in flight: its locals and pending rows
    companies,       \* table companies
    users,           \* table users
    now,             \* the clock read by datetime.now()
    pc,              \* per request: position inside create_appointment
    req,             \* per request: the DTO of the call in flight
    slot,            \* the get_available_slots call in flight (its locals)
    ret              \* the last call that returned: operation, arguments, result

vars == <<appointments, medical_records, availabilities, schedules,
          recurring_reservations, session, companies, users, now, pc, req,
          slot, ret>>

-----------------------------------------------------------------------------
(* Dates and times *)

MinutesPerDay == 24 * 60
DaysPerWeek == 7

weekday(d) == d % DaysPerWeek
combine(d, t) == d * MinutesPerDay + t
date_of(dt) == dt \div MinutesPerDay
time_of(dt) == dt % MinutesPerDay

\* NULL / None of a nullable Time, Date, DateTime, id and duration
NoTime == -1
NoDate == -1
NoDateTime == -1
NoId == 0
NoDuration == 0
NoStatus == "none"
NoText == "none"

-----------------------------------------------------------------------------
(* Conflict detection *)

\* end of a stored booking: appointment_date + duration_minutes * '1 minute'
booking_end(a) == a.appointment_date + a.duration_minutes

\* mutant: the first clause with >= (a booking ending at the start conflicts)
conflict_clause_closed(a, appointment_date, end_time) ==
    \/ /\ a.appointment_date <= appointment_date
       /\ booking_end(a) >= appointment_date
    \/ /\ a.appointment_date < end_time
       /\ booking_end(a) >= end_time
    \/ /\ a.appointment_date >= appointment_date
       /\ booking_end(a) <= end_time

\* the or_() of the three and_() clauses of the conflict query
conflict_clause(a, appointment_date, end_time) ==
    \/ /\ a.appointment_date <= appointment_date
       /\ booking_end(a) > appointment_date
    \/ /\ a.appointment_date < end_time
       /\ booking_end(a) >= end_time
    \/ /\ a.appointment_date >= appointment_date
       /\ booking_end(a) <= end_time

\* mutant: a query that also leaves out cancelled and no-show bookings
get_conflicts_by_status(table, professional_id, appointment_date, duration_minutes, exclude_appointment_id) ==
    LET end_time == appointment_date + duration_minutes
    IN  { i \in 1..Len(table) :
            /\ table[i].professional_id = professional_id
            /\ table[i].is_deleted = FALSE
            /\ table[i].is_active = TRUE
            /\ table[i].status \notin {"cancelled", "no_show"}
            /\ conflict_clause(table[i], appointment_date, end_time) }

\* mutant: a query that ignores exclude_appointment_id
get_conflicts_no_exclude(table, professional_id, appointment_date, duration_minutes, exclude_appointment_id) ==
    LET end_time == appointment_date + duration_minutes
    IN  { i \in 1..Len(table) :
            /\ table[i].professional_id = professional_id
            /\ table[i].is_deleted = FALSE
            /\ table[i].is_active = TRUE
            /\ conflict_clause(table[i], appointment_date, end_time) }

\* AppointmentRepository.get_conflicts: the ids of the rows the query returns
get_conflicts(table, professional_id, appointment_date, duration_minutes, exclude_appointment_id) ==
    LET end_time == appointment_date + duration_minutes
    IN  { i \in 1..Len(table) :
            /\ table[i].professional_id = professional_id
            /\ table[i].is_deleted = FALSE
            /\ table[i].is_active = TRUE
            /\ conflict_clause(table[i], appointment_date, end_time)
            /\ (exclude_appointment_id # NoId => i # exclude_appointment_id) }

\* FacilityScheduleRepository.get_facility_conflicts
get_facility_conflicts(table, facility_id, appointment_date, duration_minutes, exclude_appointment_id) ==
    LET end_time == appointment_date + duration_minutes
    IN  { i \in 1..Len(table) :
            /\ table[i].facility_id = facility_id
            /\ table[i].is_deleted = FALSE
            /\ table[i].is_active = TRUE
            /\ conflict_clause(table[i], appointment_date, end_time)
            /\ (exclude_appointment_id # NoId => i # exclude_appointment_id) }

-----------------------------------------------------------------------------
(* Availability resolution *)

Unavailable == [available |-> FALSE, start_time |-> NoTime, end_time |-> NoTime]

\* ProfessionalAvailabilityRepository.get_by_professional_and_day: the rows the
\* query matches; .first() returns one of them (no ORDER BY), or None
get_by_professional_and_day(table, professional_id, day_of_week) ==
    { i \in 1..Len(table) :
        /\ table[i].resource_id = professional_id
        /\ table[i].day_of_week = day_of_week
        /\ table[i].is_deleted = FALSE }

\* FacilityScheduleRepository.get_by_facility_and_day
get_by_facility_and_day(table, facility_id, day_of_week) ==
    { i \in 1..Len(table) :
        /\ table[i].resource_id = facility_id
        /\ table[i].day_of_week = day_of_week
        /\ table[i].is_deleted = FALSE }

\* the exception query: rows of the resource whose exception_date is the date
exception_query(table, resource_id, target_date) ==
    { i \in 1..Len(table) :
        /\ table[i].resource_id = resource_id
        /\ table[i].exception_date = target_date
        /\ table[i].is_deleted = FALSE }

\* Query.first(): any matching row (the order is unspecified), None if none
first(matches) == IF matches = {} THEN {NoId} ELSE matches

\* `x or y` on two optional times
time_or(x, y) == IF x # NoTime THEN x ELSE y

\* the window the code resolves from the weekly row a and the exception row e
\* (ids returned by first(), NoId for None)
resolve_window(table, a, e) ==
    IF a = NoId \/ ~table[a].is_available
    THEN Unavailable
    ELSE IF e # NoId
         THEN IF ~table[e].is_available
              THEN Unavailable
              ELSE [available |-> TRUE,
                    start_time |-> time_or(table[e].exception_start_time,
                                           table[a].start_time),
                    end_time |-> time_or(table[e].exception_end_time,
                                         table[a].end_time)]
         ELSE [available |-> TRUE,
               start_time |-> table[a].start_time,
               end_time |-> table[a].end_time]

\* AppointmentService._validate_professional_availability: TRUE when it
\* returns, FALSE when it raises AppointmentOutsideAvailabilityError
validate_professional_availability(table, a, e, appointment_date, duration_minutes) ==
    LET w == resolve_window(table, a, e)
        appointment_time == time_of(appointment_date)
        end_appointment_time == time_of(appointment_date + duration_minutes)
    IN  /\ w.available
        /\ ~(appointment_time < w.start_time \/ end_appointment_time > w.end_time)

-----------------------------------------------------------------------------
(* Status machines *)

AppointmentStatus ==
    {"scheduled", "confirmed", "in_progress", "completed", "cancelled",
     "no_show", "rescheduled", "pending", "waiting", "finished"}

MedicalRecordStatus ==
    {"draft", "in_progress", "completed", "cancelled", "archived",
     "pending_review", "approved", "rejected"}

\* mutant: the dictionary with COMPLETED also allowed from SCHEDULED
valid_transitions_skip ==
    [s \in {"scheduled", "confirmed", "in_progress", "waiting", "completed",
            "cancelled", "no_show", "rescheduled"} |->
       CASE s = "scheduled"   -> {"confirmed", "cancelled", "rescheduled",
                                  "completed"}
         [] s = "confirmed"   -> {"in_progress", "waiting", "cancelled"}
         [] s = "in_progress" -> {"completed", "finished"}
         [] s = "waiting"     -> {"in_progress", "cancelled", "no_show"}
         [] s = "completed"   -> {"finished"}
         [] s = "cancelled"   -> {"scheduled"}
         [] s = "no_show"     -> {"scheduled"}
         [] s = "rescheduled" -> {"confirmed", "cancelled"}]

\* mutant: the dictionary with PENDING also allowed from SCHEDULED
valid_transitions_pending ==
    [s \in {"scheduled", "confirmed", "in_progress", "waiting", "completed",
            "cancelled", "no_show", "rescheduled"} |->
       CASE s = "scheduled"   -> {"confirmed", "cancelled", "rescheduled",
                                  "pending"}
         [] s = "confirmed"   -> {"in_progress", "waiting", "cancelled"}
         [] s = "in_progress" -> {"completed", "finished"}
         [] s = "waiting"     -> {"in_progress", "cancelled", "no_show"}
         [] s = "completed"   -> {"finished"}
         [] s = "cancelled"   -> {"scheduled"}
         [] s = "no_show"     -> {"scheduled"}
         [] s = "rescheduled" -> {"confirmed", "cancelled"}]

\* the dictionary of AppointmentService._validate_status_transition
valid_transitions ==
    [s \in {"scheduled", "confirmed", "in_progress", "waiting", "completed",
            "cancelled", "no_show", "rescheduled"} |->
       CASE s = "scheduled"   -> {"confirmed", "cancelled", "rescheduled"}
         [] s = "confirmed"   -> {"in_progress", "waiting", "cancelled"}
         [] s = "in_progress" -> {"completed", "finished"}
         [] s = "waiting"     -> {"in_progress", "cancelled", "no_show"}
         [] s = "completed"   -> {"finished"}
         [] s = "cancelled"   -> {"scheduled"}
         [] s = "no_show"     -> {"scheduled"}
         [] s = "rescheduled" -> {"confirmed", "cancelled"}]

\* mutant: a missing key allows every status
transitions_get_open(table, current_status) ==
    IF current_status \in DOMAIN table THEN table[current_status] ELSE AppointmentStatus

\* dict.get(key, []) on a transition dictionary
transitions_get(table, current_status) ==
    IF current_status \in DOMAIN table THEN table[current_status] ELSE {}

\* _validate_status_transition: TRUE when it returns, FALSE when it raises
validate_status_transition(current_status, new_status) ==
    new_status \in transitions_get(valid_transitions, current_status)

\* mutant: the dictionary with APPROVED -> ARCHIVED left out
record_valid_transitions_short ==
    [s \in MedicalRecordStatus |->
       CASE s = "draft"          -> {"in_progress", "cancelled"}
         [] s = "in_progress"    -> {"completed", "cancelled", "pending_review"}
         [] s = "pending_review" -> {"approved", "rejected", "in_progress"}
         [] s = "approved"       -> {}
         [] s = "rejected"       -> {"in_progress", "cancelled"}
         [] s = "completed"      -> {"archived"}
         [] s = "cancelled"      -> {"draft", "in_progress"}
         [] s = "archived"       -> {"in_progress"}]

\* the dictionary of MedicalRecordService._is_valid_status_transition
record_valid_transitions ==
    [s \in MedicalRecordStatus |->
       CASE s = "draft"          -> {"in_progress", "cancelled"}
         [] s = "in_progress"    -> {"completed", "cancelled", "pending_review"}
         [] s = "pending_review" -> {"approved", "rejected", "in_progress"}
         [] s = "approved"       -> {"archived"}
         [] s = "rejected"       -> {"in_progress", "cancelled"}
         [] s = "completed"      -> {"archived"}
         [] s = "cancelled"      -> {"draft", "in_progress"}
         [] s = "archived"       -> {"in_progress"}]

is_valid_status_transition(current_status, new_status) ==
    new_status \in transitions_get(record_valid_transitions, current_status)

-----------------------------------------------------------------------------
(* Appointments: rows, mappers and handlers *)

NoRet == [op |-> "none"]
Idle == [pc |-> "idle"]

\* AppointmentRepository.get_by_id: the row with that id unless soft-deleted
get_by_id(table, appointment_id) ==
    IF appointment_id \in 1..Len(table) /\ ~table[appointment_id].is_deleted
    THEN appointment_id
    ELSE NoId

\* AppointmentMapper.to_entity, with the column defaults of the model
to_entity(dto) ==
    [professional_id |-> dto.professional_id,
     facility_id |-> dto.facility_id,
     appointment_date |-> dto.appointment_date,
     duration_minutes |-> dto.duration_minutes,
     notes |-> dto.notes,
     status |-> "scheduled",
     is_active |-> TRUE,
     is_deleted |-> FALSE]

\* AppointmentMapper.update_entity_from_dto
update_entity_from_dto(entity, dto) ==
    [entity EXCEPT
       !.appointment_date =
           IF dto.appointment_date # NoDateTime THEN dto.appointment_date ELSE @,
       !.duration_minutes =
           IF dto.duration_minutes # NoDuration THEN dto.duration_minutes ELSE @,
       !.status = IF dto.status # NoStatus THEN dto.status ELSE @,
       !.notes = IF dto.notes # NoText THEN dto.notes ELSE @]

\* create_appointment up to the insert: the error it raises, or "pass".
\* a and e are the rows .first() returned to the availability check.
create_appointment_check(dto, permitted, a, e) ==
    IF ~permitted THEN "AppointmentPermissionError"
    ELSE IF dto.appointment_date <= now THEN "AppointmentPastDateError"
    ELSE IF ~(15 <= dto.duration_minutes /\ dto.duration_minutes <= 480)
         THEN "AppointmentInvalidDurationError"
    ELSE IF get_conflicts(appointments, dto.professional_id, dto.appointment_date,
                          dto.duration_minutes, NoId) # {}
         THEN "AppointmentTimeConflictError"
    ELSE IF ~validate_professional_availability(availabilities, a, e,
                 dto.appointment_date, dto.duration_minutes)
         THEN "AppointmentOutsideAvailabilityError"
    ELSE "pass"

\* update_appointment_status up to the assignment: the error raised, or "ok"
update_appointment_status_check(appointment_id, new_status, permitted) ==
    LET id == get_by_id(appointments, appointment_id)
    IN  IF id = NoId THEN "AppointmentNotFoundError"
        ELSE IF ~permitted THEN "AppointmentPermissionError"
        ELSE IF ~validate_status_transition(appointments[id].status, new_status)
             THEN "AppointmentInvalidStatusTransitionError"
        ELSE "ok"

\* update_appointment up to the mapper call: the error raised, or "ok"
update_appointment_check(appointment_id, dto, permitted, a, e) ==
    LET id == get_by_id(appointments, appointment_id)
        row == appointments[id]
        duration == IF dto.duration_minutes # NoDuration
                    THEN dto.duration_minutes ELSE row.duration_minutes
    IN  IF id = NoId THEN "AppointmentNotFoundError"
        ELSE IF ~permitted THEN "AppointmentPermissionError"
        ELSE IF /\ dto.status # NoStatus
                /\ dto.status # row.status
                /\ ~validate_status_transition(row.status, dto.status)
             THEN "AppointmentInvalidStatusTransitionError"
        ELSE IF dto.appointment_date = NoDateTime THEN "ok"
        ELSE IF dto.appointment_date <= now THEN "AppointmentPastDateError"
        ELSE IF get_conflicts(appointments, row.professional_id,
                              dto.appointment_date, duration, appointment_id) # {}
             THEN "AppointmentTimeConflictError"
        ELSE IF ~validate_professional_availability(availabilities, a, e,
                     dto.appointment_date, duration)
             THEN "AppointmentOutsideAvailabilityError"
        ELSE "ok"

\* mutant: the assignment made before the validation
row_after_early(row, changed, result) == changed

\* the row a status handler leaves in the table: the assignment is made only
\* after the validation has passed
row_after(row, changed, result) == IF result = "ok" THEN changed ELSE row

\* AppointmentService.create_appointment, first part: permission, date,
\* duration, conflict query and availability check
CreateAppointmentCheck(r, dto, permitted) ==
    /\ pc[r] = "idle"
    /\ slot.pc = "idle"
    /\ LET day == weekday(date_of(dto.appointment_date))
           target == date_of(dto.appointment_date)
       IN \E a \in first(get_by_professional_and_day(availabilities,
                                                      dto.professional_id, day)),
             e \in first(exception_query(availabilities, dto.professional_id,
                                         target)) :
            LET result == create_appointment_check(dto, permitted, a, e)
            IN  /\ ret' = [op |-> "create_appointment", dto |-> dto,
                           window |-> resolve_window(availabilities, a, e),
                           result |-> result]
                /\ IF result = "pass"
                   THEN /\ pc' = [pc EXCEPT ![r] = "insert"]
                        /\ req' = [req EXCEPT ![r] = dto]
                   ELSE UNCHANGED <<pc, req>>
    /\ UNCHANGED <<appointments, medical_records, availabilities, schedules,
                   recurring_reservations, session, companies, users, now, slot>>

\* mutant: an insert that repeats the conflict query and drops the booking
\* when it finds one
CreateAppointmentInsertChecked(r) ==
    /\ pc[r] = "insert"
    /\ LET clash == get_conflicts(appointments, req[r].professional_id,
                       req[r].appointment_date, req[r].duration_minutes, NoId) # {}
       IN /\ appointments' = IF clash THEN appointments
                             ELSE Append(appointments, to_entity(req[r]))
          /\ ret' = [op |-> "create_appointment", dto |-> req[r],
                     result |-> IF clash THEN "AppointmentTimeConflictError"
                                ELSE "ok",
                     id |-> Len(appointments')]
    /\ pc' = [pc EXCEPT ![r] = "idle"]
    /\ req' = [req EXCEPT ![r] = NoRet]
    /\ UNCHANGED <<medical_records, availabilities, schedules, recurring_reservations, session, companies, users, now, slot>>

\* AppointmentService.create_appointment, second part:
\* AppointmentRepository.create (add, commit, refresh)
CreateAppointmentInsert(r) ==
    /\ pc[r] = "insert"
    /\ appointments' = Append(appointments, to_entity(req[r]))
    /\ pc' = [pc EXCEPT ![r] = "idle"]
    /\ req' = [req EXCEPT ![r] = NoRet]
    /\ ret' = [op |-> "create_appointment", dto |-> req[r], result |-> "ok",
               id |-> Len(appointments) + 1]
    /\ UNCHANGED <<medical_records, availabilities, schedules, recurring_reservations, session, companies, users, now, slot>>

\* AppointmentService.update_appointment_status
UpdateAppointmentStatus(appointment_id, new_status, permitted) ==
    /\ slot.pc = "idle"
    /\ LET result == update_appointment_status_check(appointment_id, new_status,
                                                     permitted)
           id == get_by_id(appointments, appointment_id)
       IN /\ ret' = [op |-> "update_appointment_status", id |-> appointment_id,
                     status |-> new_status, permitted |-> permitted,
                     result |-> result,
                     before |-> IF id = NoId THEN NoRet ELSE appointments[id]]
          /\ appointments' =
               IF id = NoId THEN appointments
               ELSE [appointments EXCEPT ![id] =
                       row_after(@, [@ EXCEPT !.status = new_status], result)]
    /\ UNCHANGED <<medical_records, availabilities, schedules, recurring_reservations, session, companies, users, now, pc, req, slot>>

\* AppointmentService.update_appointment
UpdateAppointment(appointment_id, dto, permitted) ==
    /\ slot.pc = "idle"
    /\ LET id == get_by_id(appointments, appointment_id)
           target == date_of(dto.appointment_date)
           pid == IF id = NoId THEN NoId ELSE appointments[id].professional_id
       IN \E a \in first(get_by_professional_and_day(availabilities, pid,
                                                      weekday(target))),
             e \in first(exception_query(availabilities, pid, target)) :
            LET result == update_appointment_check(appointment_id, dto,
                                                   permitted, a, e)
            IN /\ ret' = [op |-> "update_appointment", id |-> appointment_id,
                          status |-> dto.status, permitted |-> permitted,
                          appointment_date |-> dto.appointment_date,
                          duration_minutes |-> dto.duration_minutes,
                          result |-> result,
                          before |-> IF id = NoId THEN NoRet ELSE appointments[id]]
               /\ appointments' =
                    IF id = NoId THEN appointments
                    ELSE [appointments EXCEPT ![id] =
                            row_after(@, update_entity_from_dto(@, dto), result)]
    /\ UNCHANGED <<medical_records, availabilities, schedules, recurring_reservations, session, companies, users, now, pc, req, slot>>

\* AppointmentService.delete_appointment: AppointmentRepository.delete
\* (Appointment.soft_delete)
DeleteAppointment(appointment_id, permitted) ==
    /\ slot.pc = "idle"
    /\ LET id == get_by_id(appointments, appointment_id)
           result == IF id = NoId THEN "AppointmentNotFoundError"
                     ELSE IF ~permitted THEN "AppointmentPermissionError"
                     ELSE "ok"
       IN /\ ret' = [op |-> "delete_appointment", id |-> appointment_id,
                     result |-> result]
          /\ appointments' =
               IF result = "ok"
               THEN [appointments EXCEPT ![id].is_deleted = TRUE,
                                         ![id].is_active = FALSE]
               ELSE appointments
    /\ UNCHANGED <<medical_records, availabilities, schedules, recurring_reservations, session, companies, users, now, pc, req, slot>>

\* a conflict query answered for a caller
GetConflicts(professional_id, appointment_date, duration_minutes) ==
    /\ ret' = [op |-> "get_conflicts", resource_id |-> professional_id,
               appointment_date |-> appointment_date,
               duration_minutes |-> duration_minutes,
               result |-> get_conflicts(appointments, professional_id,
                              appointment_date, duration_minutes, NoId)]
    /\ UNCHANGED <<appointments, medical_records, availabilities, schedules,
                   recurring_reservations, session, companies, users, now, pc, req, slot>>

\* FacilityService.check_facility_availability: the facility conflict query
GetFacilityConflicts(facility_id, appointment_date, duration_minutes) ==
    /\ ret' = [op |-> "get_facility_conflicts", resource_id |-> facility_id,
               appointment_date |-> appointment_date,
               duration_minutes |-> duration_minutes,
               result |-> get_facility_conflicts(appointments, facility_id,
                              appointment_date, duration_minutes, NoId)]
    /\ UNCHANGED <<appointments, medical_records, availabilities, schedules,
                   recurring_reservations, session, companies, users, now, pc, req, slot>>

-----------------------------------------------------------------------------
(* Availability rows: mapper and handlers *)

\* ProfessionalAvailabilityMapper.to_entity; the exception columns are
\* nullable and start unset
availability_to_entity(dto) ==
    [resource_id |-> dto.professional_id, day_of_week |-> dto.day_of_week,
     start_time |-> dto.start_time, end_time |-> dto.end_time,
     is_available |-> dto.is_available,
     exception_date |-> NoDate, exception_start_time |-> NoTime,
     exception_end_time |-> NoTime, is_deleted |-> FALSE]

\* ProfessionalAvailabilityMapper.update_entity_from_dto: every field of the
\* DTO that is not None is copied
availability_update_entity_from_dto(entity, dto) ==
    [entity EXCEPT
       !.start_time = IF dto.start_time # NoTime THEN dto.start_time ELSE @,
       !.end_time = IF dto.end_time # NoTime THEN dto.end_time ELSE @,
       !.is_available =
           IF dto.is_available # "none" THEN dto.is_available = "true" ELSE @,
       !.exception_date =
           IF dto.exception_date # NoDate THEN dto.exception_date ELSE @,
       !.exception_start_time =
           IF dto.exception_start_time # NoTime THEN dto.exception_start_time ELSE @,
       !.exception_end_time =
           IF dto.exception_end_time # NoTime THEN dto.exception_end_time ELSE @]

\* ProfessionalAvailabilityRepository.get_by_id
availability_get_by_id(table, availability_id) ==
    IF availability_id \in 1..Len(table) /\ ~table[availability_id].is_deleted
    THEN availability_id
    ELSE NoId

\* mutant: the create check without the time range validation
create_professional_availability_check_lax(dto, permitted) ==
    IF ~permitted THEN "AppointmentPermissionError"
    ELSE IF get_by_professional_and_day(availabilities, dto.professional_id,
                                        dto.day_of_week) # {}
         THEN "ProfessionalAvailabilityConflictError"
    ELSE "ok"

\* mutant: the create check without the lookup of an existing record
create_professional_availability_check_nodup(dto, permitted) ==
    IF ~permitted THEN "AppointmentPermissionError"
    ELSE IF dto.start_time >= dto.end_time
         THEN "ProfessionalAvailabilityInvalidTimeError"
    ELSE "ok"

\* create_professional_availability up to the repository create
create_professional_availability_check(dto, permitted) ==
    IF ~permitted THEN "AppointmentPermissionError"
    ELSE IF dto.start_time >= dto.end_time
         THEN "ProfessionalAvailabilityInvalidTimeError"
    ELSE IF get_by_professional_and_day(availabilities, dto.professional_id,
                                        dto.day_of_week) # {}
         THEN "ProfessionalAvailabilityConflictError"
    ELSE "ok"

\* update_professional_availability up to the mapper call
update_professional_availability_check(availability_id, dto, permitted) ==
    IF availability_get_by_id(availabilities, availability_id) = NoId
    THEN "ProfessionalAvailabilityNotFoundError"
    ELSE IF ~permitted THEN "AppointmentPermissionError"
    ELSE IF /\ dto.start_time # NoTime
            /\ dto.end_time # NoTime
            /\ dto.start_time >= dto.end_time
         THEN "ProfessionalAvailabilityInvalidTimeError"
    ELSE "ok"

\* AppointmentService.create_professional_availability
CreateProfessionalAvailability(dto, permitted) ==
    /\ slot.pc = "idle"
    /\ LET result == create_professional_availability_check(dto, permitted)
       IN /\ ret' = [op |-> "create_professional_availability",
                     id |-> IF result = "ok" THEN Len(availabilities) + 1
                            ELSE NoId,
                     resource_id |-> dto.professional_id,
                     day_of_week |-> dto.day_of_week,
                     start_time |-> dto.start_time, end_time |-> dto.end_time,
                     permitted |-> permitted, count |-> Len(availabilities),
                     result |-> result]
          /\ availabilities' =
               IF result = "ok"
               THEN Append(availabilities, availability_to_entity(dto))
               ELSE availabilities
    /\ UNCHANGED <<appointments, medical_records, schedules, recurring_reservations, session, companies, users, now, pc, req, slot>>

\* AppointmentService.update_professional_availability
UpdateProfessionalAvailability(availability_id, dto, permitted) ==
    /\ slot.pc = "idle"
    /\ LET result == update_professional_availability_check(availability_id,
                                                            dto, permitted)
       IN /\ ret' = [op |-> "update_professional_availability",
                     id |-> availability_id, result |-> result]
          /\ availabilities' =
               IF result = "ok"
               THEN [availabilities EXCEPT ![availability_id] =
                       availability_update_entity_from_dto(@, dto)]
               ELSE availabilities
    /\ UNCHANGED <<appointments, medical_records, schedules, recurring_reservations, session, companies, users, now, pc, req, slot>>

\* AppointmentService.delete_professional_availability:
\* ProfessionalAvailabilityRepository.delete (soft_delete)
DeleteProfessionalAvailability(availability_id, permitted) ==
    /\ slot.pc = "idle"
    /\ LET result == IF availability_get_by_id(availabilities, availability_id) = NoId
                     THEN "ProfessionalAvailabilityNotFoundError"
                     ELSE IF ~permitted THEN "AppointmentPermissionError"
                     ELSE "ok"
       IN /\ ret' = [op |-> "delete_professional_availability",
                     id |-> availability_id, result |-> result]
          /\ availabilities' =
               IF result = "ok"
               THEN [availabilities EXCEPT ![availability_id].is_deleted = TRUE]
               ELSE availabilities
    /\ UNCHANGED <<appointments, medical_records, schedules, recurring_reservations, session, companies, users, now, pc, req, slot>>

-----------------------------------------------------------------------------
(* Facility schedules: mapper and handlers *)

\* the rows of the facilities table
Facilities == {1}

\* FacilityRepository.get_by_id: the facilities that exist
facility_get_by_id(facility_id) == IF facility_id \in Facilities THEN facility_id ELSE NoId

\* FacilityScheduleMapper.to_entity
schedule_to_entity(dto) ==
    [resource_id |-> dto.facility_id, day_of_week |-> dto.day_of_week,
     start_time |-> dto.start_time, end_time |-> dto.end_time,
     is_available |-> dto.is_available,
     exception_date |-> NoDate, exception_start_time |-> NoTime,
     exception_end_time |-> NoTime, is_deleted |-> FALSE]

\* FacilityScheduleMapper.update_entity_from_dto
schedule_update_entity_from_dto(entity, dto) ==
    [entity EXCEPT
       !.start_time = IF dto.start_time # NoTime THEN dto.start_time ELSE @,
       !.end_time = IF dto.end_time # NoTime THEN dto.end_time ELSE @,
       !.is_available =
           IF dto.is_available # "none" THEN dto.is_available = "true" ELSE @,
       !.exception_date =
           IF dto.exception_date # NoDate THEN dto.exception_date ELSE @,
       !.exception_start_time =
           IF dto.exception_start_time # NoTime THEN dto.exception_start_time ELSE @,
       !.exception_end_time =
           IF dto.exception_end_time # NoTime THEN dto.exception_end_time ELSE @]

\* FacilityScheduleRepository.get_by_id
schedule_get_by_id(table, schedule_id) ==
    IF schedule_id \in 1..Len(table) /\ ~table[schedule_id].is_deleted
    THEN schedule_id
    ELSE NoId

\* create_facility_schedule up to the repository create
create_facility_schedule_check(dto, permitted) ==
    IF facility_get_by_id(dto.facility_id) = NoId THEN "FacilityNotFoundError"
    ELSE IF ~permitted THEN "FacilityPermissionError"
    ELSE IF dto.start_time >= dto.end_time
         THEN "FacilityScheduleInvalidTimeError"
    ELSE IF get_by_facility_and_day(schedules, dto.facility_id,
                                    dto.day_of_week) # {}
         THEN "FacilityScheduleConflictError"
    ELSE "ok"

\* update_facility_schedule up to the mapper call
update_facility_schedule_check(schedule_id, dto, permitted) ==
    IF schedule_get_by_id(schedules, schedule_id) = NoId
    THEN "FacilityScheduleNotFoundError"
    ELSE IF facility_get_by_id(schedules[schedule_id].resource_id) = NoId
         THEN "FacilityNotFoundError"
    ELSE IF ~permitted THEN "FacilityPermissionError"
    ELSE IF /\ dto.start_time # NoTime
            /\ dto.end_time # NoTime
            /\ dto.start_time >= dto.end_time
         THEN "FacilityScheduleInvalidTimeError"
    ELSE "ok"

\* FacilityService.create_facility_schedule
CreateFacilitySchedule(dto, permitted) ==
    /\ slot.pc = "idle"
    /\ LET result == create_facility_schedule_check(dto, permitted)
       IN /\ ret' = [op |-> "create_facility_schedule",
                     id |-> IF result = "ok" THEN Len(schedules) + 1 ELSE NoId,
                     resource_id |-> dto.facility_id,
                     day_of_week |-> dto.day_of_week,
                     start_time |-> dto.start_time, end_time |-> dto.end_time,
                     permitted |-> permitted, count |-> Len(schedules),
                     result |-> result]
          /\ schedules' =
               IF result = "ok"
               THEN Append(schedules, schedule_to_entity(dto))
               ELSE schedules
    /\ UNCHANGED <<appointments, medical_records, availabilities, recurring_reservations, session, companies, users, now, pc, req,
                   slot>>

\* FacilityService.update_facility_schedule
UpdateFacilitySchedule(schedule_id, dto, permitted) ==
    /\ slot.pc = "idle"
    /\ LET result == update_facility_schedule_check(schedule_id, dto, permitted)
       IN /\ ret' = [op |-> "update_facility_schedule", id |-> schedule_id,
                     result |-> result]
          /\ schedules' =
               IF result = "ok"
               THEN [schedules EXCEPT ![schedule_id] =
                       schedule_update_entity_from_dto(@, dto)]
               ELSE schedules
    /\ UNCHANGED <<appointments, medical_records, availabilities, recurring_reservations, session, companies, users, now, pc, req,
                   slot>>

\* FacilityService.delete_facility_schedule: FacilityScheduleRepository.delete
DeleteFacilitySchedule(schedule_id, permitted) ==
    /\ slot.pc = "idle"
    /\ LET result == IF schedule_get_by_id(schedules, schedule_id) = NoId
                     THEN "FacilityScheduleNotFoundError"
                     ELSE IF facility_get_by_id(schedules[schedule_id].resource_id) = NoId
                          THEN "FacilityNotFoundError"
                     ELSE IF ~permitted THEN "FacilityPermissionError"
                     ELSE "ok"
       IN /\ ret' = [op |-> "delete_facility_schedule", id |-> schedule_id,
                     result |-> result]
          /\ schedules' =
               IF result = "ok"
               THEN [schedules EXCEPT ![schedule_id].is_deleted = TRUE]
               ELSE schedules
    /\ UNCHANGED <<appointments, medical_records, availabilities, recurring_reservations, session, companies, users, now, pc, req,
                   slot>>

-----------------------------------------------------------------------------
(* Slot generation: get_available_slots of both repositories *)

\* the most slots a call is followed through
MaxSlots == 4

\* mutant: a loop that stops before a slot ending exactly at the window's end
slot_loop_condition_strict(current_time, duration_minutes, end_datetime) == current_time + duration_minutes < end_datetime

\* the condition of the while loop
slot_loop_condition(current_time, duration_minutes, end_datetime) == current_time + duration_minutes <= end_datetime

\* get_available_slots up to the loop: the weekly row and the exception row
\* are looked up and the window is resolved; an unavailable day returns []
GetAvailableSlotsCall(kind, resource_id, target_date, duration_minutes) ==
    /\ slot.pc = "idle"
    /\ LET table == IF kind = "professional" THEN availabilities ELSE schedules
           weekly == IF kind = "professional"
                     THEN get_by_professional_and_day(table, resource_id,
                                                      weekday(target_date))
                     ELSE get_by_facility_and_day(table, resource_id,
                                                  weekday(target_date))
       IN \E a \in first(weekly),
             e \in first(exception_query(table, resource_id, target_date)) :
            LET w == resolve_window(table, a, e)
            IN  IF ~w.available
                THEN /\ ret' = [op |-> "get_available_slots", kind |-> kind,
                                resource_id |-> resource_id,
                                target_date |-> target_date,
                                duration_minutes |-> duration_minutes,
                                window |-> w, error |-> "none",
                                result |-> <<>>]
                     /\ slot' = slot
                ELSE /\ slot' = [pc |-> "loop", kind |-> kind,
                                 resource_id |-> resource_id,
                                 target_date |-> target_date,
                                 duration_minutes |-> duration_minutes,
                                 window |-> w,
                                 current_time |-> combine(target_date, w.start_time),
                                 end_datetime |-> combine(target_date, w.end_time),
                                 slots |-> <<>>]
                     /\ ret' = NoRet
    /\ UNCHANGED <<appointments, medical_records, availabilities, schedules,
                   recurring_reservations, session, companies, users, now, pc, req>>

\* one iteration of the while loop
SlotLoopStep ==
    /\ slot.pc = "loop"
    /\ slot_loop_condition(slot.current_time, slot.duration_minutes,
                           slot.end_datetime)
    /\ Len(slot.slots) < MaxSlots
    /\ LET slot_end == slot.current_time + slot.duration_minutes
       IN slot' = [slot EXCEPT
                     !.slots = Append(@, <<slot.current_time, slot_end>>),
                     !.current_time = slot_end]
    /\ UNCHANGED <<appointments, medical_records, availabilities, schedules,
                   recurring_reservations, session, companies, users, now, pc, req, ret>>

\* the loop condition is false: return slots
SlotLoopReturn ==
    /\ slot.pc = "loop"
    /\ ~slot_loop_condition(slot.current_time, slot.duration_minutes,
                            slot.end_datetime)
    /\ ret' = [op |-> "get_available_slots", kind |-> slot.kind,
               resource_id |-> slot.resource_id,
               target_date |-> slot.target_date,
               duration_minutes |-> slot.duration_minutes,
               window |-> slot.window, error |-> "none",
               result |-> slot.slots]
    /\ slot' = Idle
    /\ UNCHANGED <<appointments, medical_records, availabilities, schedules,
                   recurring_reservations, session, companies, users, now, pc, req>>

-----------------------------------------------------------------------------
(* Medical records: rows, mapper and handlers *)

NoUser == [id |-> NoId, profile |-> "none"]

\* MedicalRecordRepository.get_by_id
record_get_by_id(table, medical_record_id) ==
    IF medical_record_id \in 1..Len(table) /\ ~table[medical_record_id].is_deleted
    THEN medical_record_id
    ELSE NoId

\* MedicalRecordService._can_update_medical_record
can_update_medical_record(user, medical_record) ==
    IF user.profile \in {"super", "admin", "manager"} THEN TRUE
    ELSE IF user.profile = "professional"
         THEN medical_record.professional_id = user.id
    ELSE FALSE

\* map_medical_record_update_dto_to_model followed by
\* MedicalRecordRepository.update (setattr of every key of update_data)
record_update(row, dto) ==
    [row EXCEPT
       !.title = IF dto.title # NoText THEN dto.title ELSE @,
       !.status = IF dto.status # NoStatus THEN dto.status ELSE @,
       !.is_confidential =
           IF dto.is_confidential # "none" THEN dto.is_confidential = "true" ELSE @]

\* update_medical_record_status up to the repository update
update_medical_record_status_check(medical_record_id, new_status, user) ==
    LET id == record_get_by_id(medical_records, medical_record_id)
    IN  IF id = NoId THEN "MedicalRecordNotFoundError"
        ELSE IF user = NoUser THEN "MedicalRecordPermissionError"
        ELSE IF ~can_update_medical_record(user, medical_records[id])
             THEN "MedicalRecordPermissionError"
        ELSE IF ~is_valid_status_transition(medical_records[id].status, new_status)
             THEN "MedicalRecordStatusError"
        ELSE "ok"

\* update_medical_record up to the repository update
update_medical_record_check(medical_record_id, dto, user) ==
    LET id == record_get_by_id(medical_records, medical_record_id)
    IN  IF id = NoId THEN "MedicalRecordNotFoundError"
        ELSE IF user = NoUser THEN "MedicalRecordPermissionError"
        ELSE IF ~can_update_medical_record(user, medical_records[id])
             THEN "MedicalRecordPermissionError"
        ELSE IF /\ dto.status # NoStatus
                /\ dto.status # medical_records[id].status
                /\ ~is_valid_status_transition(medical_records[id].status, dto.status)
             THEN "MedicalRecordStatusError"
        ELSE "ok"

\* MedicalRecordService.update_medical_record_status
UpdateMedicalRecordStatus(medical_record_id, new_status, user) ==
    /\ slot.pc = "idle"
    /\ LET result == update_medical_record_status_check(medical_record_id,
                                                        new_status, user)
           id == record_get_by_id(medical_records, medical_record_id)
       IN /\ ret' = [op |-> "update_medical_record_status",
                     id |-> medical_record_id, status |-> new_status,
                     permitted |-> /\ id # NoId
                                   /\ user # NoUser
                                   /\ can_update_medical_record(user,
                                                                medical_records[id]),
                     result |-> result,
                     before |-> IF id = NoId THEN NoRet ELSE medical_records[id]]
          /\ medical_records' =
               IF id = NoId THEN medical_records
               ELSE [medical_records EXCEPT ![id] =
                       row_after(@, [@ EXCEPT !.status = new_status], result)]
    /\ UNCHANGED <<appointments, availabilities, schedules, recurring_reservations, session, companies, users, now, pc, req, slot>>

\* MedicalRecordService.update_medical_record
UpdateMedicalRecord(medical_record_id, dto, user) ==
    /\ slot.pc = "idle"
    /\ LET result == update_medical_record_check(medical_record_id, dto, user)
           id == record_get_by_id(medical_records, medical_record_id)
       IN /\ ret' = [op |-> "update_medical_record", id |-> medical_record_id,
                     status |-> dto.status,
                     permitted |-> /\ id # NoId
                                   /\ user # NoUser
                                   /\ can_update_medical_record(user,
                                                                medical_records[id]),
                     result |-> result,
                     before |-> IF id = NoId THEN NoRet ELSE medical_records[id]]
          /\ medical_records' =
               IF id = NoId THEN medical_records
               ELSE [medical_records EXCEPT ![id] =
                       row_after(@, record_update(@, dto), result)]
    /\ UNCHANGED <<appointments, availabilities, schedules, recurring_reservations, session, companies, users, now, pc, req, slot>>

-----------------------------------------------------------------------------
(* Sample inputs *)

Requests == {1, 2}
Professionals == {1, 2}
Tomorrow == 1
Noon == 720
SampleTimes == {540, 600, 630, 660}       \* 09:00, 10:00, 10:30, 11:00
SampleDurations == {15, 60}
SampleStarts == { combine(Tomorrow, t) : t \in SampleTimes }

RestInit ==
    /\ recurring_reservations = <<>>
    /\ session = Idle
    /\ companies = <<>>
    /\ users = <<>>
    /\ now = combine(0, Noon)
    /\ pc = [r \in Requests |-> "idle"]
    /\ req = [r \in Requests |-> NoRet]
    /\ slot = Idle
    /\ ret = NoRet

-----------------------------------------------------------------------------
(* SpecConflict: the two conflict queries over tables of up to two bookings *)

\* rows the handlers can leave in the table: any resource, interval and
\* status; deleted rows are inactive (soft_delete), active rows not deleted
SampleRows ==
    { row \in [professional_id : Professionals,
               facility_id : {NoId} \cup Facilities,
               appointment_date : SampleStarts,
               duration_minutes : SampleDurations,
               notes : {NoText},
               status : {"scheduled", "cancelled"},
               is_active : BOOLEAN,
               is_deleted : BOOLEAN] :
        row.is_deleted => ~row.is_active }

SecondRows ==
    { row \in SampleRows : /\ row.professional_id = 1
                           /\ row.facility_id = 1
                           /\ row.status = "scheduled"
                           /\ row.is_active /\ ~row.is_deleted }

ConflictInit ==
    /\ appointments \in {<<>>} \cup { <<x>> : x \in SampleRows }
                        \cup { <<x, y>> : x \in SampleRows, y \in SecondRows }
    /\ medical_records = <<>>
    /\ availabilities = <<>>
    /\ schedules = <<>>
    /\ RestInit

ConflictNext ==
    \/ \E p \in Professionals, s \in SampleStarts, d \in SampleDurations :
         GetConflicts(p, s, d)
    \/ \E f \in Facilities, s \in SampleStarts, d \in SampleDurations :
         GetFacilityConflicts(f, s, d)

SpecConflict == ConflictInit /\ [][ConflictNext]_vars

\* the bookings of the table a conflict check on the resource must consider
Considered(op, resource_id) ==
    { i \in 1..Len(appointments) :
        /\ IF op = "get_conflicts"
           THEN appointments[i].professional_id = resource_id
           ELSE appointments[i].facility_id = resource_id
        /\ appointments[i].is_active
        /\ ~appointments[i].is_deleted }

\* C1: a conflict query returns a non-empty result exactly when some
\* considered booking [bStart, bStart+bDur) of the resource satisfies
\* start < bStart+bDur and bStart < start+duration; a booking that only
\* touches the requested interval is never returned.
C1_ConflictIffOverlap ==
    ret.op \in {"get_conflicts", "get_facility_conflicts"} =>
      LET start == ret.appointment_date
          stop == ret.appointment_date + ret.duration_minutes
          B == Considered(ret.op, ret.resource_id)
      IN  /\ (ret.result # {}) <=>
               \E i \in B :
                  /\ start < appointments[i].appointment_date
                               + appointments[i].duration_minutes
                  /\ appointments[i].appointment_date < stop
          /\ \A i \in ret.result :
               /\ appointments[i].appointment_date
                    + appointments[i].duration_minutes # start
               /\ appointments[i].appointment_date # stop

\* a query whose only considered bookings touch the requested interval
C1_Witness ==
    /\ ret.op \in {"get_conflicts", "get_facility_conflicts"}
    /\ ret.result = {}
    /\ \E i, j \in Considered(ret.op, ret.resource_id) :
         /\ appointments[i].appointment_date + appointments[i].duration_minutes
              = ret.appointment_date
         /\ appointments[j].appointment_date
              = ret.appointment_date + ret.duration_minutes

-----------------------------------------------------------------------------
(* SpecStatus: the status handlers on one appointment and one medical record *)

Users ==
    {[id |-> 1, profile |-> "professional"],
     [id |-> 2, profile |-> "professional"],
     [id |-> 3, profile |-> "manager"],
     [id |-> 4, profile |-> "client"]}

\* Monday to Sunday 09:00-12:00 for professional 1, as created by
\* create_professional_availability
WorkingWeek ==
    [d \in 1..DaysPerWeek |->
       [resource_id |-> 1, day_of_week |-> d - 1,
        start_time |-> 540, end_time |-> 720, is_available |-> TRUE,
        exception_date |-> NoDate, exception_start_time |-> NoTime,
        exception_end_time |-> NoTime, is_deleted |-> FALSE]]

\* a database holding one booking, or one holding one medical record
StatusInit ==
    /\ \/ /\ appointments =
               <<to_entity([professional_id |-> 1, facility_id |-> NoId,
                            appointment_date |-> combine(Tomorrow, 540),
                            duration_minutes |-> 60, notes |-> NoText])>>
          /\ medical_records = <<>>
       \/ /\ appointments = <<>>
          /\ medical_records =
               <<[title |-> "title", status |-> "draft",
                  is_confidential |-> FALSE, professional_id |-> 1,
                  is_active |-> TRUE, is_deleted |-> FALSE]>>
    /\ availabilities = WorkingWeek
    /\ schedules = <<>>
    /\ RestInit

AppointmentUpdateDTOs ==
    [status : AppointmentStatus \cup {NoStatus},
     notes : {NoText, "edited"},
     appointment_date : {NoDateTime, combine(Tomorrow, 600), combine(0, 600)},
     duration_minutes : {NoDuration}]

MedicalRecordUpdateDTOs ==
    [status : MedicalRecordStatus \cup {NoStatus},
     title : {NoText, "edited"},
     is_confidential : {"none", "true"}]

StatusNext ==
    \/ \E s \in AppointmentStatus, permitted \in BOOLEAN :
         UpdateAppointmentStatus(1, s, permitted)
    \/ \E dto \in AppointmentUpdateDTOs, permitted \in BOOLEAN :
         UpdateAppointment(1, dto, permitted)
    \/ \E s \in MedicalRecordStatus, u \in Users \cup {NoUser} :
         UpdateMedicalRecordStatus(1, s, u)
    \/ \E dto \in MedicalRecordUpdateDTOs, u \in Users \cup {NoUser} :
         UpdateMedicalRecord(1, dto, u)

SpecStatus == StatusInit /\ [][StatusNext]_vars

\* the booking table of the specification
BookingTable(s) ==
    CASE s = "scheduled"   -> {"confirmed", "cancelled", "rescheduled"}
      [] s = "confirmed"   -> {"in_progress", "waiting", "cancelled"}
      [] s = "waiting"     -> {"in_progress", "cancelled", "no_show"}
      [] s = "in_progress" -> {"completed", "finished"}
      [] s = "completed"   -> {"finished"}
      [] s = "cancelled"   -> {"scheduled"}
      [] s = "no_show"     -> {"scheduled"}
      [] s = "rescheduled" -> {"confirmed", "cancelled"}
      [] OTHER             -> {}

\* the record table of the specification
RecordTable(s) ==
    CASE s = "draft"          -> {"in_progress", "cancelled"}
      [] s = "in_progress"    -> {"completed", "cancelled", "pending_review"}
      [] s = "pending_review" -> {"approved", "rejected", "in_progress"}
      [] s = "approved"       -> {"archived"}
      [] s = "rejected"       -> {"in_progress", "cancelled"}
      [] s = "completed"      -> {"archived"}
      [] s = "cancelled"      -> {"draft", "in_progress"}
      [] s = "archived"       -> {"in_progress"}
      [] OTHER                -> {}

\* C3: update_appointment_status on a found appointment, by a permitted
\* user, is accepted (and stores the new status) exactly when the new
\* status is in the booking table's set of the current status; every other
\* pair raises AppointmentInvalidStatusTransitionError.
C3_BookingTransitions ==
    (ret.op = "update_appointment_status" /\ ret.before # NoRet /\ ret.permitted) =>
      IF ret.status \in BookingTable(ret.before.status)
      THEN ret.result = "ok" /\ appointments[ret.id].status = ret.status
      ELSE ret.result = "AppointmentInvalidStatusTransitionError"

\* the last step of the chain SCHEDULED, CONFIRMED, IN_PROGRESS, COMPLETED
C3_Witness ==
    /\ ret.op = "update_appointment_status"
    /\ ret.result = "ok"
    /\ ret.before.status = "in_progress"
    /\ ret.status = "completed"

\* C4: update_medical_record_status on a found record, by a user allowed
\* to update it, is accepted (and stores the new status) exactly when the
\* new status is in the record table's set of the current status; every
\* other pair raises MedicalRecordStatusError.
C4_RecordTransitions ==
    (ret.op = "update_medical_record_status" /\ ret.before # NoRet /\ ret.permitted) =>
      IF ret.status \in RecordTable(ret.before.status)
      THEN ret.result = "ok" /\ medical_records[ret.id].status = ret.status
      ELSE ret.result = "MedicalRecordStatusError"

\* an accepted APPROVED -> ARCHIVED
C4_Witness ==
    /\ ret.op = "update_medical_record_status"
    /\ ret.result = "ok"
    /\ ret.before.status = "approved"
    /\ ret.status = "archived"

\* C5: a status change rejected as an invalid transition, by either entry
\* point of either entity, leaves the stored row exactly as it was.
C5_RejectedLeavesUnchanged ==
    /\ (/\ ret.op \in {"update_appointment_status", "update_appointment"}
        /\ ret.result = "AppointmentInvalidStatusTransitionError")
         => appointments[ret.id] = ret.before
    /\ (/\ ret.op \in {"update_medical_record_status", "update_medical_record"}
        /\ ret.result = "MedicalRecordStatusError")
         => medical_records[ret.id] = ret.before

\* a general update carrying other changes, rejected for its status
C5_Witness ==
    /\ ret.op = "update_appointment"
    /\ ret.result = "AppointmentInvalidStatusTransitionError"
    /\ ret.before.status = "confirmed"
    /\ ret.before.notes = "edited"

-----------------------------------------------------------------------------
(* SpecBooking: two create_appointment requests served concurrently *)

MaxBookings == 2

AppointmentCreateDTOs ==
    {[professional_id |-> 1, facility_id |-> NoId, notes |-> NoText,
      appointment_date |-> combine(d, t), duration_minutes |-> 60] :
        d \in {Tomorrow}, t \in {540, 570, 600}}
    \cup {[professional_id |-> 1, facility_id |-> NoId, notes |-> NoText,
           appointment_date |-> combine(0, 540), duration_minutes |-> 60]}

BookingInit ==
    /\ appointments = <<>>
    /\ medical_records = <<>>
    /\ availabilities = WorkingWeek
    /\ schedules = <<>>
    /\ RestInit

BookingNext ==
    \/ /\ Len(appointments) < MaxBookings
       /\ \E r \in Requests, dto \in AppointmentCreateDTOs, permitted \in BOOLEAN :
            CreateAppointmentCheck(r, dto, permitted)
    \/ \E r \in Requests : CreateAppointmentInsert(r)

SpecBooking == BookingInit /\ [][BookingNext]_vars

\* two stored bookings of one professional, both live, whose half-open
\* intervals overlap
Overlapping(i, j) ==
    /\ i # j
    /\ appointments[i].professional_id = appointments[j].professional_id
    /\ ~appointments[i].is_deleted /\ appointments[i].is_active
    /\ ~appointments[j].is_deleted /\ appointments[j].is_active
    /\ appointments[i].appointment_date < booking_end(appointments[j])
    /\ appointments[j].appointment_date < booking_end(appointments[i])

\* C2: the conflict check of create_appointment is made once, before the
\* insert; a request that has passed it persists its booking whatever has
\* been stored in the meantime, so two concurrent calls can both pass the
\* check and both be persisted.
C2_InsertAfterCheckAlwaysPersists ==
    [][\A r \in Requests :
         (pc[r] = "insert" /\ pc'[r] = "idle") =>
            appointments' = Append(appointments, to_entity(req[r]))]_vars

\* both calls persisted: two overlapping live bookings of one professional
C2_Witness ==
    /\ pc = [r \in Requests |-> "idle"]
    /\ \E i, j \in 1..Len(appointments) : Overlapping(i, j)

-----------------------------------------------------------------------------
(* SpecSlots: get_available_slots of both repositories over one-row tables *)

\* 09:00-10:00 on Tomorrow's weekday, as create_professional_availability
\* stores it
WeeklyRow ==
    availability_to_entity([professional_id |-> 1,
                            day_of_week |-> weekday(Tomorrow),
                            start_time |-> 540, end_time |-> 600,
                            is_available |-> TRUE])

\* the exception fields update_professional_availability can set on it
ExceptionDTOs ==
    [start_time : {NoTime}, end_time : {NoTime},
     is_available : {"none", "false"},
     exception_date : {NoDate, Tomorrow},
     exception_start_time : {NoTime, 660},
     exception_end_time : {NoTime, 570}]

SlotRows == { availability_update_entity_from_dto(WeeklyRow, dto) : dto \in ExceptionDTOs }

SlotDurations == {0, 30, 45}

SlotDates == {Tomorrow, Tomorrow + DaysPerWeek}

SlotsInit ==
    /\ appointments = <<>>
    /\ medical_records = <<>>
    /\ \E row \in SlotRows : availabilities = <<row>>
    /\ \E row \in {WeeklyRow, availability_update_entity_from_dto(WeeklyRow,
                      [start_time |-> NoTime, end_time |-> NoTime,
                       is_available |-> "none", exception_date |-> Tomorrow,
                       exception_start_time |-> NoTime,
                       exception_end_time |-> 570])} :
         schedules = <<row>>
    /\ RestInit

SlotsNext ==
    \/ \E kind \in {"professional", "facility"}, target_date \in SlotDates,
          duration_minutes \in SlotDurations :
         GetAvailableSlotsCall(kind, 1, target_date, duration_minutes)
    \/ SlotLoopStep
    \/ SlotLoopReturn

SpecSlots == SlotsInit /\ [][SlotsNext]_vars

\* the slots [ws + k*d, ws + (k+1)*d) for k = 0 .. floor((we - ws)/d) - 1
ExpectedSlots(ws, we, d) ==
    [k \in 1..((we - ws) \div d) |-> <<ws + (k - 1) * d, ws + k * d>>]

\* C6: for a resolved window [ws, we) with ws < we and a duration d >= 1,
\* get_available_slots of either repository returns exactly the slots
\* [ws + k*d, ws + (k+1)*d) for k = 0 .. floor((we - ws)/d) - 1, in
\* ascending order; the remainder shorter than d is dropped and the list is
\* empty when d exceeds the window length.
C6_ExactSlots ==
    (/\ ret.op = "get_available_slots"
     /\ ret.window.available
     /\ ret.window.start_time < ret.window.end_time
     /\ ret.duration_minutes >= 1)
      => ret.result = ExpectedSlots(combine(ret.target_date, ret.window.start_time),
                                    combine(ret.target_date, ret.window.end_time),
                                    ret.duration_minutes)

\* 09:00-10:00 with 45 minutes: one slot, the last 15 minutes dropped
C6_Witness ==
    /\ ret.op = "get_available_slots"
    /\ ret.window.available
    /\ ret.window.end_time - ret.window.start_time = 60
    /\ ret.duration_minutes = 45
    /\ Len(ret.result) = 1

\* C7: get_available_slots terminates for every integer duration_minutes:
\* every iteration of its loop brings current_time strictly closer to
\* end_datetime, so the loop condition fails after finitely many
\* iterations and the list returned is finite.
C7_SlotGenerationTerminates ==
    [][(slot.pc = "loop" /\ slot'.pc = "loop") =>
          slot'.end_datetime - slot'.current_time
            < slot.end_datetime - slot.current_time]_vars

-----------------------------------------------------------------------------
(* SpecAvail: availability rows created and updated through the service,
   then read by get_available_slots and create_appointment *)

MaxAvailabilities == 2

AvailabilityCreateDTOs ==
    [professional_id : {1},
     day_of_week : {weekday(Tomorrow), weekday(Tomorrow + 1)},
     start_time : {540}, end_time : {540, 600},
     is_available : BOOLEAN]

AvailabilityUpdateDTOs ==
    [start_time : {NoTime}, end_time : {NoTime},
     is_available : {"none", "true", "false"},
     exception_date : {NoDate, Tomorrow},
     exception_start_time : {NoTime, 660},
     exception_end_time : {NoTime, 570}]
    \cup {[start_time |-> 600, end_time |-> 540, is_available |-> "none",
           exception_date |-> NoDate, exception_start_time |-> NoTime,
           exception_end_time |-> NoTime]}

AvailInit ==
    /\ appointments = <<>>
    /\ medical_records = <<>>
    /\ availabilities = <<>>
    /\ schedules = <<WeeklyRow>>
    /\ RestInit

AvailNext ==
    \/ /\ Len(availabilities) < MaxAvailabilities
       /\ \E dto \in AvailabilityCreateDTOs, permitted \in BOOLEAN :
            CreateProfessionalAvailability(dto, permitted)
    \/ \E id \in 1..MaxAvailabilities, dto \in AvailabilityUpdateDTOs,
          permitted \in BOOLEAN :
         UpdateProfessionalAvailability(id, dto, permitted)
    \/ \E kind \in {"professional", "facility"} :
         GetAvailableSlotsCall(kind, 1, Tomorrow, 30)
    \/ SlotLoopStep
    \/ SlotLoopReturn
    \/ /\ Len(appointments) < MaxBookings
       /\ CreateAppointmentCheck(1,
            [professional_id |-> 1, facility_id |-> NoId, notes |-> NoText,
             appointment_date |-> combine(Tomorrow, 540),
             duration_minutes |-> 30], TRUE)
    \/ CreateAppointmentInsert(1)

SpecAvail == AvailInit /\ [][AvailNext]_vars

\* the live rows of a table that are exceptions of the resource for the date
Exceptions(table, resource_id, target_date) ==
    { i \in 1..Len(table) :
        /\ ~table[i].is_deleted
        /\ table[i].resource_id = resource_id
        /\ table[i].exception_date = target_date }

\* the live weekly rows of the resource for the date's weekday
Weekly(table, resource_id, target_date) ==
    { i \in 1..Len(table) :
        /\ ~table[i].is_deleted
        /\ table[i].resource_id = resource_id
        /\ table[i].day_of_week = weekday(target_date) }

\* C8: when a live exception of a professional for date D has
\* is_available = false, get_available_slots yields no slot for D and the
\* availability check of create_appointment on D does not pass (the call
\* fails with AppointmentOutsideAvailabilityError unless an earlier check
\* has already failed it).
C8_UnavailableExceptionOverrides ==
    /\ (/\ ret.op = "get_available_slots"
        /\ ret.kind = "professional"
        /\ \E i \in Exceptions(availabilities, ret.resource_id, ret.target_date) :
             ~availabilities[i].is_available)
         => ret.result = <<>>
    /\ (/\ ret.op = "create_appointment"
        /\ ret.result # "ok"
        /\ \E i \in Exceptions(availabilities, ret.dto.professional_id,
                               date_of(ret.dto.appointment_date)) :
             ~availabilities[i].is_available)
         => ret.result \in {"AppointmentPermissionError",
                            "AppointmentPastDateError",
                            "AppointmentInvalidDurationError",
                            "AppointmentTimeConflictError",
                            "AppointmentOutsideAvailabilityError"}

\* the window the specification resolves for the date, compared with w
ResolvesTo(table, resource_id, target_date, w) ==
    LET W == Weekly(table, resource_id, target_date)
        X == Exceptions(table, resource_id, target_date)
    IN  /\ (\A a \in W : ~table[a].is_available) => w = Unavailable
        /\ (/\ \E a \in W : table[a].is_available
            /\ \E e \in X : table[e].is_available)
             => \E a \in W, e \in X :
                  /\ table[a].is_available
                  /\ table[e].is_available
                  /\ w = [available |-> TRUE,
                          start_time |-> IF table[e].exception_start_time # NoTime
                                         THEN table[e].exception_start_time
                                         ELSE table[a].start_time,
                          end_time |-> IF table[e].exception_end_time # NoTime
                                       THEN table[e].exception_end_time
                                       ELSE table[a].end_time]
        /\ ((\E a \in W : table[a].is_available) /\ X = {})
             => \E a \in W :
                  w = [available |-> TRUE, start_time |-> table[a].start_time,
                       end_time |-> table[a].end_time]

\* C9: the window resolved for (resource, date D) is Unavailable when no
\* weekly row exists for D's weekday or that row is unavailable, whatever
\* exception exists; otherwise, when an available exception for D exists,
\* it is (exception start if set else weekly start, exception end if set
\* else weekly end); otherwise, with no exception, the weekly window.
C9_ResolutionCases ==
    /\ ret.op = "get_available_slots" =>
         ResolvesTo(IF ret.kind = "professional" THEN availabilities ELSE schedules,
                    ret.resource_id, ret.target_date, ret.window)
    /\ (/\ ret.op = "create_appointment"
        /\ ret.result \in {"pass", "AppointmentOutsideAvailabilityError"}) =>
         ResolvesTo(availabilities, ret.dto.professional_id,
                    date_of(ret.dto.appointment_date), ret.window)

\* C10: whenever the window resolved for a date has start >= end,
\* availability resolution fails: get_available_slots ends with a validation
\* error instead of a list, and the availability check of create_appointment
\* does not pass.
C10_InvalidWindowIsAnError ==
    /\ (/\ ret.op = "get_available_slots"
        /\ ret.window.available
        /\ ret.window.start_time >= ret.window.end_time)
         => ret.error = "ValidationError"
    /\ (/\ ret.op = "create_appointment"
        /\ ret.result \in {"pass", "AppointmentOutsideAvailabilityError"}
        /\ ret.window.available
        /\ ret.window.start_time >= ret.window.end_time)
         => ret.result # "pass"

-----------------------------------------------------------------------------
(* SpecWeekly: weekly rows of one resource created, updated and deleted.
   The two tables are independent (no handler of one reads the other), so a
   run works on the professional's table or on the facility's. *)

WeeklyCreateDTOs ==
    [day_of_week : {weekday(Tomorrow), weekday(Tomorrow + 1)},
     start_time : {540, 600}, end_time : {540, 600},
     is_available : {TRUE}]

WeeklyUpdateDTOs ==
    [start_time : {NoTime, 600, 660}, end_time : {NoTime, 570, 600},
     is_available : {"none"}, exception_date : {NoDate},
     exception_start_time : {NoTime}, exception_end_time : {NoTime}]

WeeklyInit ==
    /\ appointments = <<>>
    /\ medical_records = <<>>
    /\ availabilities = <<>>
    /\ schedules = <<>>
    /\ RestInit

WeeklyNext ==
    \/ /\ schedules = <<>>
       /\ Len(availabilities) < MaxAvailabilities
       /\ \E dto \in WeeklyCreateDTOs, permitted \in BOOLEAN :
            CreateProfessionalAvailability(
              [professional_id |-> 1] @@ dto, permitted)
    \/ \E id \in 1..MaxAvailabilities, dto \in WeeklyUpdateDTOs,
          permitted \in BOOLEAN :
         UpdateProfessionalAvailability(id, dto, permitted)
    \/ \E id \in 1..MaxAvailabilities, permitted \in BOOLEAN :
         DeleteProfessionalAvailability(id, permitted)
    \/ /\ availabilities = <<>>
       /\ Len(schedules) < MaxAvailabilities
       /\ \E dto \in WeeklyCreateDTOs, facility_id \in {1, 2},
             permitted \in BOOLEAN :
            CreateFacilitySchedule([facility_id |-> facility_id] @@ dto,
                                   permitted)
    \/ \E id \in 1..MaxAvailabilities, dto \in WeeklyUpdateDTOs,
          permitted \in BOOLEAN :
         UpdateFacilitySchedule(id, dto, permitted)
    \/ \E id \in 1..MaxAvailabilities, permitted \in BOOLEAN :
         DeleteFacilitySchedule(id, permitted)

SpecWeekly == WeeklyInit /\ [][WeeklyNext]_vars

\* the table a create call wrote to
CreatedIn == IF ret.op = "create_professional_availability" THEN availabilities ELSE schedules

\* C11: create_professional_availability and create_facility_schedule
\* called with start_time >= end_time store no record, and a caller who has
\* passed the lookups and the permission check gets the invalid-time error.
C11_InvalidTimeRejected ==
    (/\ ret.op \in {"create_professional_availability", "create_facility_schedule"}
     /\ ret.start_time >= ret.end_time)
      => /\ Len(CreatedIn) = ret.count
         /\ ret.result # "ok"
         /\ (/\ ret.permitted
             /\ ret.op = "create_facility_schedule" =>
                  facility_get_by_id(ret.resource_id) # NoId) =>
              ret.result \in {"ProfessionalAvailabilityInvalidTimeError",
                              "FacilityScheduleInvalidTimeError"}

\* a facility schedule 10:00-09:00 refused while a valid one is stored
C11_Witness ==
    /\ ret.op = "create_facility_schedule"
    /\ ret.start_time = 600 /\ ret.end_time = 540
    /\ ret.result = "FacilityScheduleInvalidTimeError"
    /\ Len(schedules) = 1

\* the live rows of a table
Live(table) == { i \in 1..Len(table) : ~table[i].is_deleted }

\* C12: after any sequence of create and update operations on professional
\* availabilities and facility schedules, every stored non-deleted weekly
\* record has start_time < end_time.
C12_WeeklyStartBeforeEnd ==
    /\ \A i \in Live(availabilities) :
         availabilities[i].start_time < availabilities[i].end_time
    /\ \A i \in Live(schedules) :
         schedules[i].start_time < schedules[i].end_time

\* no two live rows of a table share (resource_id, day_of_week)
UniqueWeekly(table) ==
    \A i, j \in Live(table) :
      (/\ table[i].resource_id = table[j].resource_id
       /\ table[i].day_of_week = table[j].day_of_week) => i = j

\* C13: after any sequential run of create, update and delete operations
\* there is at most one non-deleted weekly record per (professional_id,
\* day_of_week) and per (facility_id, day_of_week), and a create for a pair
\* that already has a non-deleted record is rejected with a conflict error.
C13_OneWeeklyPerDay ==
    /\ UniqueWeekly(availabilities)
    /\ UniqueWeekly(schedules)
    /\ (/\ ret.op \in {"create_professional_availability", "create_facility_schedule"}
        /\ ret.result \notin {"ok", "AppointmentPermissionError",
                              "FacilityPermissionError", "FacilityNotFoundError",
                              "ProfessionalAvailabilityInvalidTimeError",
                              "FacilityScheduleInvalidTimeError"})
         => /\ ret.result \in {"ProfessionalAvailabilityConflictError",
                               "FacilityScheduleConflictError"}
            /\ \E i \in Live(CreatedIn) :
                 /\ CreatedIn[i].resource_id = ret.resource_id
                 /\ CreatedIn[i].day_of_week = ret.day_of_week
    /\ (/\ ret.op \in {"create_professional_availability", "create_facility_schedule"}
        /\ ret.result = "ok")
         => \A i \in Live(CreatedIn) :
              (/\ CreatedIn[i].resource_id = ret.resource_id
               /\ CreatedIn[i].day_of_week = ret.day_of_week) => i = ret.id

\* a day freed by a delete and taken again: a deleted and a live row of the
\* same professional and day
C13_Witness ==
    /\ ret.op = "create_professional_availability"
    /\ ret.result = "ok"
    /\ \E i \in 1..Len(availabilities) :
         /\ availabilities[i].is_deleted
         /\ availabilities[i].day_of_week = ret.day_of_week
         /\ availabilities[i].resource_id = ret.resource_id

\* no two live rows of a table are exceptions of one resource for one date
UniqueException(table) ==
    \A i, j \in Live(table) :
      (/\ table[i].resource_id = table[j].resource_id
       /\ table[i].exception_date # NoDate
       /\ table[i].exception_date = table[j].exception_date) => i = j

\* C14: after any sequence of availability create and update operations at
\* most one non-deleted exception exists per (resource_id, exception_date).
C14_OneExceptionPerDate ==
    /\ UniqueException(availabilities)
    /\ UniqueException(schedules)

\* C15: a conflict query returns exactly the bookings of the same resource
\* with is_active = true and is_deleted = false that overlap the requested
\* interval: a deleted or deactivated booking or a booking of another
\* resource is never returned, and an active booking is returned whatever
\* its status.
C15_ConsideredBookings ==
    ret.op \in {"get_conflicts", "get_facility_conflicts"} =>
      ret.result =
        { i \in Considered(ret.op, ret.resource_id) :
            /\ ret.appointment_date < booking_end(appointments[i])
            /\ appointments[i].appointment_date
                 < ret.appointment_date + ret.duration_minutes }

\* an active cancelled booking returned as a conflict
C15_Witness ==
    /\ ret.op = "get_conflicts"
    /\ \E i \in ret.result : appointments[i].status = "cancelled"

-----------------------------------------------------------------------------
(* SpecReschedule: update_appointment moving the bookings of one
   professional *)

RescheduleDTOs ==
    [status : {NoStatus}, notes : {NoText},
     appointment_date : {NoDateTime} \cup
                        { combine(Tomorrow, t) : t \in {570, 600, 630} },
     duration_minutes : {NoDuration, 30}]

FirstBooking ==
    to_entity([professional_id |-> 1, facility_id |-> NoId,
               appointment_date |-> combine(Tomorrow, 540),
               duration_minutes |-> 60, notes |-> NoText])

SecondBooking ==
    to_entity([professional_id |-> 1, facility_id |-> NoId,
               appointment_date |-> combine(Tomorrow, 660),
               duration_minutes |-> 60, notes |-> NoText])

RescheduleInit ==
    /\ appointments \in {<<FirstBooking>>, <<FirstBooking, SecondBooking>>}
    /\ medical_records = <<>>
    /\ availabilities = WorkingWeek
    /\ schedules = <<>>
    /\ RestInit

RescheduleNext ==
    \/ \E id \in 1..2, dto \in RescheduleDTOs, permitted \in BOOLEAN :
         UpdateAppointment(id, dto, permitted)
    \/ \E id \in 1..2 : DeleteAppointment(id, TRUE)

SpecReschedule == RescheduleInit /\ [][RescheduleNext]_vars

\* C16: update_appointment is rejected with a time-conflict error only when
\* the requested interval overlaps another active booking of the
\* professional; overlapping the booking's own previous interval is no
\* conflict.
C16_OwnIntervalIsNoConflict ==
    (ret.op = "update_appointment" /\ ret.result = "AppointmentTimeConflictError")
      => \E j \in 1..Len(appointments) :
           /\ j # ret.id
           /\ appointments[j].professional_id = ret.before.professional_id
           /\ appointments[j].is_active /\ ~appointments[j].is_deleted
           /\ ret.appointment_date < booking_end(appointments[j])
           /\ appointments[j].appointment_date
                < ret.appointment_date
                    + (IF ret.duration_minutes # NoDuration
                       THEN ret.duration_minutes
                       ELSE ret.before.duration_minutes)

\* 09:00-10:00 moved to 09:30-10:30
C16_Witness ==
    /\ ret.op = "update_appointment"
    /\ ret.result = "ok"
    /\ ret.before.appointment_date = combine(Tomorrow, 540)
    /\ ret.before.duration_minutes = 60
    /\ ret.appointment_date = combine(Tomorrow, 570)
    /\ appointments[ret.id].appointment_date = combine(Tomorrow, 570)

-----------------------------------------------------------------------------
(* Recurring reservations: generate_appointments_from_reservation *)

\* a String column holds a text, here a sequence of one-character strings
Digits == <<"0", "1", "2", "3", "4", "5", "6", "7", "8", "9">>

\* str.split(sep): the pieces of the text between the separators
RECURSIVE split(_, _)
split(text, sep) ==
    IF \A i \in 1..Len(text) : text[i] # sep
    THEN <<text>>
    ELSE LET k == CHOOSE i \in 1..Len(text) :
                    text[i] = sep /\ \A j \in 1..(i - 1) : text[j] # sep
         IN  <<SubSeq(text, 1, k - 1)>> \o split(SubSeq(text, k + 1, Len(text)), sep)

\* int(text) for a non-empty text of decimal digits
RECURSIVE int(_)
int(text) ==
    LET digit == (CHOOSE d \in 1..10 : Digits[d] = text[Len(text)]) - 1
    IN  IF Len(text) = 1
        THEN digit
        ELSE 10 * int(SubSeq(text, 1, Len(text) - 1)) + digit

\* the lookup by id that skips soft-deleted reservations, NoId if none
reservation_query(table, reservation_id) ==
    IF /\ reservation_id \in 1..Len(table)
       /\ table[reservation_id].is_deleted = FALSE
    THEN reservation_id
    ELSE NoId

\* the range validation without its end_date clause
generation_range_check_open(reservation, generation_dto) ==
    IF generation_dto.start_date < reservation.start_date
    THEN "ValueError"
    ELSE "ok"

\* the range validation of generate_appointments_from_reservation
generation_range_check(reservation, generation_dto) ==
    IF generation_dto.start_date < reservation.start_date
    THEN "ValueError"
    ELSE IF /\ reservation.end_date # NoDate
            /\ generation_dto.end_date > reservation.end_date
         THEN "ValueError"
         ELSE "ok"

\* datetime.combine(current_date, time(hour, minute)) with hour and minute
\* parsed from the reservation's start_time text
appointment_datetime(reservation, current_date) ==
    LET start_time_parts == split(reservation.start_time, ":")
    IN  combine(current_date,
                int(start_time_parts[1]) * 60 + int(start_time_parts[2]))

\* GeneratedAppointmentDTO of one candidate
GeneratedAppointmentDTO(reservation, at) ==
    [appointment_date |-> at,
     professional_id |-> reservation.professional_id,
     facility_id |-> reservation.facility_id,
     duration_minutes |-> reservation.duration_minutes]

\* the Appointment row the loop adds to the session: the constructor call
\* passes no patient_id, so the column is left unset
generated_appointment(reservation, at) ==
    [patient_id |-> NoId,
     professional_id |-> reservation.professional_id,
     facility_id |-> reservation.facility_id,
     appointment_date |-> at,
     duration_minutes |-> reservation.duration_minutes,
     notes |-> "generated",
     status |-> "scheduled",
     is_active |-> TRUE,
     is_deleted |-> FALSE]

\* the loop body with the weekday test removed
generation_step_daily(reservation, generation_dto, table, failing, current_date, acc) ==
    LET at == appointment_datetime(reservation, current_date)
    IN  IF current_date \in failing
        THEN [acc EXCEPT !.conflicts = Append(@, [note |-> "Erro", at |-> at])]
        ELSE IF get_facility_conflicts(table, reservation.facility_id, at,
                                       reservation.duration_minutes, NoId) = {}
             THEN [acc EXCEPT
                     !.generated = Append(@, GeneratedAppointmentDTO(reservation, at)),
                     !.pending = IF generation_dto.create_appointments
                                 THEN Append(@, generated_appointment(reservation, at))
                                 ELSE @]
             ELSE [acc EXCEPT !.conflicts = Append(@, [note |-> "Conflito", at |-> at])]

\* the body of the while loop for one current_date; failing is the set of
\* dates on which the conflict query raises (caught by except Exception).
\* Rows added to the session are not flushed (autoflush is off), so the query
\* reads the table as it was when the call began
generation_step(reservation, generation_dto, table, failing, current_date, acc) ==
    IF weekday(current_date) # reservation.day_of_week
    THEN acc
    ELSE LET at == appointment_datetime(reservation, current_date)
         IN  IF current_date \in failing
             THEN [acc EXCEPT !.conflicts = Append(@, [note |-> "Erro", at |-> at])]
             ELSE IF get_facility_conflicts(table, reservation.facility_id, at,
                                            reservation.duration_minutes, NoId) = {}
                  THEN [acc EXCEPT
                          !.generated = Append(@, GeneratedAppointmentDTO(reservation, at)),
                          !.pending = IF generation_dto.create_appointments
                                      THEN Append(@, generated_appointment(reservation, at))
                                      ELSE @]
                  ELSE [acc EXCEPT !.conflicts = Append(@, [note |-> "Conflito", at |-> at])]

\* while current_date <= generation_dto.end_date: ...; current_date += 1 day
RECURSIVE generation_loop(_, _, _, _, _, _)
generation_loop(reservation, generation_dto, table, failing, current_date, acc) ==
    IF current_date <= generation_dto.end_date
    THEN generation_loop(reservation, generation_dto, table, failing,
                         current_date + 1,
                         generation_step(reservation, generation_dto, table,
                                         failing, current_date, acc))
    ELSE acc

\* Session.commit after the loop: the flush inserts the pending rows, and the
\* appointments table rejects a row whose patient_id (NOT NULL) is unset; the
\* transaction is then rolled back as a whole
commit(pending) ==
    IF \E i \in 1..Len(pending) : pending[i].patient_id = NoId
    THEN "IntegrityError"
    ELSE "ok"

\* the outcome of a call that raises: no report, nothing persisted
raised(error) ==
    [result |-> error, reported |-> FALSE, generated |-> <<>>,
     conflicts |-> <<>>, persisted |-> <<>>]

\* RecurringReservationService.generate_appointments_from_reservation
generate_appointments_from_reservation(reservation_id, generation_dto, permitted, failing) ==
    IF reservation_query(recurring_reservations, reservation_id) = NoId
    THEN raised("FacilityNotFoundError")
    ELSE LET reservation == recurring_reservations[reservation_id]
             acc == generation_loop(reservation, generation_dto, appointments,
                                    failing, generation_dto.start_date,
                                    [generated |-> <<>>, conflicts |-> <<>>,
                                     pending |-> <<>>])
             committed == IF generation_dto.create_appointments
                          THEN commit(acc.pending)
                          ELSE "ok"
         IN  IF ~permitted
             THEN raised("FacilityPermissionError")
             ELSE IF generation_range_check(reservation, generation_dto) # "ok"
                  THEN raised(generation_range_check(reservation, generation_dto))
             ELSE IF committed # "ok"
                  THEN raised(committed)
             ELSE [result |-> "ok", reported |-> TRUE,
                   generated |-> acc.generated, conflicts |-> acc.conflicts,
                   persisted |-> acc.pending]

GenerateAppointmentsFromReservation(reservation_id, generation_dto, permitted, failing) ==
    /\ slot.pc = "idle"
    /\ LET outcome == generate_appointments_from_reservation(
                          reservation_id, generation_dto, permitted, failing)
       IN /\ appointments' = appointments \o outcome.persisted
          /\ ret' = [op |-> "generate_appointments_from_reservation",
                     id |-> reservation_id,
                     generation_dto |-> generation_dto,
                     permitted |-> permitted,
                     failing |-> failing,
                     before |-> appointments,
                     result |-> outcome.result,
                     reported |-> outcome.reported,
                     generated |-> outcome.generated,
                     conflicts |-> outcome.conflicts]
    /\ UNCHANGED <<medical_records, availabilities, schedules,
                   recurring_reservations, session, companies, users, now, pc, req, slot>>

\* RecurringReservationService.delete_recurring_reservation: soft_delete
DeleteRecurringReservation(reservation_id, permitted) ==
    /\ slot.pc = "idle"
    /\ LET result == IF reservation_query(recurring_reservations, reservation_id) = NoId
                     THEN "FacilityNotFoundError"
                     ELSE IF ~permitted THEN "FacilityPermissionError"
                     ELSE "ok"
       IN /\ ret' = [op |-> "delete_recurring_reservation",
                     id |-> reservation_id, permitted |-> permitted,
                     result |-> result]
          /\ recurring_reservations' =
               IF result = "ok"
               THEN [recurring_reservations EXCEPT
                       ![reservation_id].is_deleted = TRUE,
                       ![reservation_id].is_active = FALSE]
               ELSE recurring_reservations
    /\ UNCHANGED <<appointments, medical_records, availabilities, schedules,
                   session, companies, users, now, pc, req, slot>>

-----------------------------------------------------------------------------
(* SpecGenerate: generation calls on one stored reservation *)

\* the last calendar date a generation range reaches
LastDate == 9

TwoPM == <<"1", "4", ":", "0", "0">>
HalfPastNine == <<"9", ":", "3", "0">>

\* reservations as create_recurring_reservation stores them: the time texts
\* passed _validate_time_format, start_date <= end_date when end_date is set
SampleReservations ==
    [day_of_week : {weekday(Tomorrow), weekday(Tomorrow + 1)},
     start_time : {TwoPM, HalfPastNine},
     duration_minutes : {60},
     start_date : {Tomorrow},
     end_date : {NoDate, Tomorrow + DaysPerWeek},
     professional_id : {1},
     facility_id : {1},
     is_active : {TRUE},
     is_deleted : {FALSE}]

\* a booking of the facility, 14:30-15:30 on the first matching Tuesday
FacilityBooking ==
    to_entity([professional_id |-> 2, facility_id |-> 1,
               appointment_date |-> combine(Tomorrow, 870),
               duration_minutes |-> 60, notes |-> NoText])

GenerationDTOs ==
    [start_date : {0, Tomorrow, Tomorrow + 1},
     end_date : {Tomorrow, Tomorrow + DaysPerWeek, LastDate},
     create_appointments : BOOLEAN]

\* the dates on which the conflict query may raise
FailingDates == {{}, {Tomorrow}, {Tomorrow + DaysPerWeek}}

\* the weekly schedule of the facility: Tuesdays 09:00-12:00
FacilityMorning ==
    schedule_to_entity([facility_id |-> 1, day_of_week |-> weekday(Tomorrow),
                        start_time |-> 540, end_time |-> 720,
                        is_available |-> TRUE])

GenerateInit ==
    /\ appointments \in {<<>>, <<FacilityBooking>>}
    /\ medical_records = <<>>
    /\ availabilities = <<>>
    /\ schedules = <<FacilityMorning>>
    /\ \E reservation \in SampleReservations :
         recurring_reservations = <<reservation>>
    /\ session = Idle
    /\ companies = <<>>
    /\ users = <<>>
    /\ now = combine(0, Noon)
    /\ pc = [r \in Requests |-> "idle"]
    /\ req = [r \in Requests |-> NoRet]
    /\ slot = Idle
    /\ ret = NoRet

GenerateNext ==
    \/ \E reservation_id \in {1, 2}, generation_dto \in GenerationDTOs,
          permitted \in BOOLEAN, failing \in FailingDates :
         GenerateAppointmentsFromReservation(reservation_id, generation_dto,
                                             permitted, failing)
    \/ \E reservation_id \in {1, 2}, permitted \in BOOLEAN :
         DeleteRecurringReservation(reservation_id, permitted)

SpecGenerate == GenerateInit /\ [][GenerateNext]_vars

\* the reservation a generation call that got past the lookup worked on
Generated ==
    /\ ret.op = "generate_appointments_from_reservation"
    /\ ret.result # "FacilityNotFoundError"

\* the call of ret passed the lookup and the permission check
Validated == Generated /\ ret.result # "FacilityPermissionError"

\* the requested range lies outside the reservation's validity
OutOfRange ==
    LET reservation == recurring_reservations[ret.id]
    IN  \/ ret.generation_dto.start_date < reservation.start_date
        \/ /\ reservation.end_date # NoDate
           /\ ret.generation_dto.end_date > reservation.end_date

\* C17: a generation request whose start_date is before the reservation's
\* start_date, or whose end_date is after the reservation's end_date when
\* one is set, is rejected with a validation error, returns no report and
\* persists no booking.
C17_OutOfRangeRejected ==
    (Validated /\ OutOfRange)
      => /\ ret.result = "ValueError"
         /\ ~ret.reported
         /\ ret.generated = <<>> /\ ret.conflicts = <<>>
         /\ appointments = ret.before

\* a range ending after the reservation's end_date, its start being fine
C17_Witness ==
    /\ Validated
    /\ ret.generation_dto.start_date >= recurring_reservations[ret.id].start_date
    /\ recurring_reservations[ret.id].end_date # NoDate
    /\ ret.generation_dto.end_date > recurring_reservations[ret.id].end_date
    /\ ret.result = "ValueError"
    /\ appointments = ret.before

\* the minutes after midnight the sample start_time texts stand for
ClockMinutes(text) == IF text = TwoPM THEN 840 ELSE 570

\* the dates of the requested range that fall on the reservation's weekday
MatchingDates ==
    { d \in ret.generation_dto.start_date..ret.generation_dto.end_date :
        weekday(d) = recurring_reservations[ret.id].day_of_week }

\* the entries of the report that concern date d
GeneratedOn(d) ==
    { i \in 1..Len(ret.generated) : date_of(ret.generated[i].appointment_date) = d }

ConflictsOn(d) ==
    { i \in 1..Len(ret.conflicts) : date_of(ret.conflicts[i].at) = d }

\* C18: the report of an accepted range holds exactly one entry, a generated
\* candidate or a conflict note, for each date of the range that falls on
\* the reservation's weekday and none for any other date; each candidate
\* starts on its date at the reservation's start_time and has the
\* reservation's duration.
C18_OneEntryPerMatchingDate ==
    (Validated /\ ret.reported)
      => LET reservation == recurring_reservations[ret.id]
         IN  /\ \A d \in 0..(LastDate + 1) :
                  Cardinality(GeneratedOn(d)) + Cardinality(ConflictsOn(d))
                    = IF d \in MatchingDates THEN 1 ELSE 0
             /\ Len(ret.generated) + Len(ret.conflicts) = Cardinality(MatchingDates)
             /\ \A i \in 1..Len(ret.generated) :
                  /\ time_of(ret.generated[i].appointment_date)
                       = ClockMinutes(reservation.start_time)
                  /\ ret.generated[i].duration_minutes = reservation.duration_minutes
             /\ \A i \in 1..Len(ret.conflicts) :
                  time_of(ret.conflicts[i].at) = ClockMinutes(reservation.start_time)

\* two matching dates in the range: one is taken, the other is free
C18_Witness ==
    /\ Validated /\ ret.reported
    /\ Cardinality(MatchingDates) = 2
    /\ Len(ret.generated) = 1
    /\ Len(ret.conflicts) = 1
    /\ ret.conflicts[1].note = "Conflito"
    /\ ret.generation_dto.end_date > ret.generation_dto.start_date + DaysPerWeek

\* C19: once the range validation has passed, a conflict or an error on one
\* candidate date is recorded as a conflict note and the call reaches the
\* end of the range and returns the full report.
C19_GenerationAlwaysReports ==
    (Validated /\ ~OutOfRange)
      => /\ ret.result = "ok"
         /\ ret.reported
         /\ \A d \in MatchingDates \cap ret.failing :
              \E i \in ConflictsOn(d) : ret.conflicts[i].note = "Erro"

\* the matching dates of the range on which the facility is free and the
\* conflict query answers
FreeDates ==
    { d \in MatchingDates \ ret.failing :
        \A j \in 1..Len(ret.before) :
          LET reservation == recurring_reservations[ret.id]
              at == combine(d, ClockMinutes(reservation.start_time))
          IN  ~ /\ ret.before[j].facility_id = reservation.facility_id
                /\ ret.before[j].is_active /\ ~ret.before[j].is_deleted
                /\ ret.before[j].appointment_date < at + reservation.duration_minutes
                /\ at < booking_end(ret.before[j]) }

\* the appointments persisted by the call of ret
Persisted == { i \in 1..Len(appointments) : i > Len(ret.before) }

\* C20: a generation call with create_appointments = true over an accepted
\* range returns having persisted exactly one new SCHEDULED appointment for
\* each generated candidate, with the candidate's start, duration,
\* professional and facility, and none for a date reported as a conflict.
C20_GeneratedArePersisted ==
    (Validated /\ ~OutOfRange /\ ret.generation_dto.create_appointments)
      => LET reservation == recurring_reservations[ret.id]
         IN  /\ ret.reported
             /\ Cardinality(Persisted) = Len(ret.generated)
             /\ \A d \in FreeDates :
                  \E i \in Persisted :
                    /\ appointments[i].appointment_date
                         = combine(d, ClockMinutes(reservation.start_time))
                    /\ appointments[i].duration_minutes = reservation.duration_minutes
                    /\ appointments[i].professional_id = reservation.professional_id
                    /\ appointments[i].facility_id = reservation.facility_id
                    /\ appointments[i].status = "scheduled"
             /\ \A i \in Persisted :
                  date_of(appointments[i].appointment_date) \in FreeDates

\* the rows of table that book the reservation's facility at the candidate
\* start of date d
BookedOn(table, d) ==
    { i \in 1..Len(table) :
        /\ table[i].facility_id = recurring_reservations[ret.id].facility_id
        /\ table[i].appointment_date
             = combine(d, ClockMinutes(recurring_reservations[ret.id].start_time)) }

\* C21: a second generate call with create_appointments = true over the same
\* range, right after a first one, generates and persists a booking again
\* for every date the first call had free, leaving duplicate bookings.
C21_SecondCallDuplicates ==
    [][ ( /\ Validated /\ ~OutOfRange
          /\ ret.generation_dto.create_appointments
          /\ ret.failing \cap MatchingDates = {}
          /\ ret'.op = "generate_appointments_from_reservation"
          /\ ret'.id = ret.id
          /\ ret'.generation_dto = ret.generation_dto
          /\ ret'.permitted
          /\ ret'.failing \cap MatchingDates = {} )
        => \A d \in FreeDates :
             /\ Cardinality(BookedOn(appointments', d)) >= 2
             /\ \E i \in 1..Len(ret'.generated) :
                  date_of(ret'.generated[i].appointment_date) = d ]_vars

-----------------------------------------------------------------------------
(* SpecSession: the generate call step by step. The rows it adds stay in its
   Session until the commit after the loop; other requests run in between *)

\* a commit that keeps the first pending row whatever the flush says
flush_first(pending) ==
    IF pending = <<>> THEN <<>> ELSE <<pending[1]>>

\* the rows the transaction of Session.commit leaves in the table: every
\* pending row, or none when the flush fails and the transaction rolls back
flush(pending) ==
    IF commit(pending) = "ok" THEN pending ELSE <<>>

\* generate_appointments_from_reservation up to the start of the loop
GenerateCall(reservation_id, generation_dto, permitted) ==
    /\ session.pc # "loop"
    /\ LET found == reservation_query(recurring_reservations, reservation_id)
           error == IF found = NoId THEN "FacilityNotFoundError"
                    ELSE IF ~permitted THEN "FacilityPermissionError"
                    ELSE generation_range_check(recurring_reservations[found],
                                                generation_dto)
       IN IF error # "ok"
          THEN /\ session' = Idle
               /\ ret' = [op |-> "generate_appointments_from_reservation",
                          id |-> reservation_id,
                          generation_dto |-> generation_dto,
                          permitted |-> permitted,
                          failing |-> {},
                          before |-> appointments,
                          result |-> error,
                          reported |-> FALSE,
                          generated |-> <<>>,
                          conflicts |-> <<>>]
          ELSE /\ session' = [pc |-> "loop",
                              id |-> reservation_id,
                              generation_dto |-> generation_dto,
                              before |-> appointments,
                              current_date |-> generation_dto.start_date,
                              failing |-> {},
                              generated |-> <<>>,
                              conflicts |-> <<>>,
                              pending |-> <<>>]
               /\ ret' = ret
    /\ UNCHANGED <<appointments, medical_records, availabilities, schedules,
                   recurring_reservations, companies, users, now, pc, req, slot>>

\* one iteration of the while loop; raises says whether the conflict query
\* raises on this date
GenerateLoopStep(raises) ==
    /\ session.pc = "loop"
    /\ session.current_date <= session.generation_dto.end_date
    /\ LET reservation == recurring_reservations[session.id]
           matches == weekday(session.current_date) = reservation.day_of_week
           acc == generation_step(reservation, session.generation_dto,
                                  appointments,
                                  IF raises THEN {session.current_date} ELSE {},
                                  session.current_date,
                                  [generated |-> session.generated,
                                   conflicts |-> session.conflicts,
                                   pending |-> session.pending])
       IN session' = [session EXCEPT
                        !.current_date = @ + 1,
                        !.failing = IF raises /\ matches
                                    THEN @ \cup {session.current_date}
                                    ELSE @,
                        !.generated = acc.generated,
                        !.conflicts = acc.conflicts,
                        !.pending = acc.pending]
    /\ UNCHANGED <<appointments, medical_records, availabilities, schedules,
                   recurring_reservations, companies, users, now, pc, req, slot, ret>>

\* the end of the loop: the commit, if asked for, and the return
GenerateCommit ==
    /\ session.pc = "loop"
    /\ session.current_date > session.generation_dto.end_date
    /\ LET create == session.generation_dto.create_appointments
           committed == IF create THEN commit(session.pending) ELSE "ok"
       IN /\ appointments' = IF create
                             THEN appointments \o flush(session.pending)
                             ELSE appointments
          /\ ret' = [op |-> "generate_appointments_from_reservation",
                     id |-> session.id,
                     generation_dto |-> session.generation_dto,
                     permitted |-> TRUE,
                     failing |-> session.failing,
                     before |-> session.before,
                     result |-> committed,
                     reported |-> (committed = "ok"),
                     generated |-> IF committed = "ok"
                                   THEN session.generated ELSE <<>>,
                     conflicts |-> IF committed = "ok"
                                   THEN session.conflicts ELSE <<>>]
          /\ session' = [session EXCEPT !.pc = "returned"]
    /\ UNCHANGED <<medical_records, availabilities, schedules,
                   recurring_reservations, companies, users, now, pc, req, slot>>

\* a booking of the reservation's professional elsewhere, 14:30-15:30 on the
\* first matching Tuesday
ProfessionalBooking ==
    to_entity([professional_id |-> 1, facility_id |-> NoId,
               appointment_date |-> combine(Tomorrow, 870),
               duration_minutes |-> 60, notes |-> NoText])

SessionDTOs ==
    [start_date : {Tomorrow},
     end_date : {Tomorrow, LastDate},
     create_appointments : BOOLEAN]

SessionInit ==
    /\ appointments \in {<<>>, <<FacilityBooking>>, <<ProfessionalBooking>>}
    /\ medical_records = <<>>
    /\ availabilities = <<>>
    /\ schedules = <<>>
    /\ \E reservation \in SampleReservations :
         recurring_reservations = <<reservation>>
    /\ session = Idle
    /\ companies = <<>>
    /\ users = <<>>
    /\ now = combine(0, Noon)
    /\ pc = [r \in Requests |-> "idle"]
    /\ req = [r \in Requests |-> NoRet]
    /\ slot = Idle
    /\ ret = NoRet

SessionNext ==
    \/ \E reservation_id \in {1, 2}, generation_dto \in SessionDTOs,
          permitted \in BOOLEAN :
         GenerateCall(reservation_id, generation_dto, permitted)
    \/ \E raises \in BOOLEAN : GenerateLoopStep(raises)
    \/ GenerateCommit
    \/ \E t \in {570, 840} :
         GetFacilityConflicts(1, combine(Tomorrow, t), 60)

SpecSession == SessionInit /\ [][SessionNext]_vars

\* the rows the call of session has put in the table
Added == { i \in 1..Len(appointments) : i > Len(session.before) }

WithinFacilityWindow(facility_id, appointment_date, duration_minutes) ==
    \A a \in first(get_by_facility_and_day(schedules, facility_id,
                                           weekday(date_of(appointment_date)))),
       e \in first(exception_query(schedules, facility_id,
                                   date_of(appointment_date))) :
      validate_professional_availability(schedules, a, e, appointment_date,
                                         duration_minutes)

\* C23: generation resolves the availability of the reservation's facility
\* for each candidate date: no candidate is generated on a date for which
\* the facility resolves to Unavailable or whose interval lies outside the
\* resolved window.
C23_GeneratedWithinAvailability ==
    (Validated /\ ret.reported)
      => \A i \in 1..Len(ret.generated) :
           WithinFacilityWindow(ret.generated[i].facility_id,
                                ret.generated[i].appointment_date,
                                ret.generated[i].duration_minutes)

-----------------------------------------------------------------------------
(* SpecLifecycle: the four lifecycle methods the entity models share *)

\* soft_delete(self)
soft_delete(entity) == [entity EXCEPT !.is_deleted = TRUE, !.is_active = FALSE]

\* restore(self)
restore(entity) == [entity EXCEPT !.is_deleted = FALSE, !.is_active = TRUE]

\* deactivate(self)
deactivate(entity) == [entity EXCEPT !.is_active = FALSE]

\* activate(self)
activate(entity) == [entity EXCEPT !.is_active = TRUE]

EntityKinds == {"appointment", "medical_record", "recurring_reservation"}

SoftDelete(kind) ==
    /\ appointments' = IF kind = "appointment"
                       THEN [appointments EXCEPT ![1] = soft_delete(@)]
                       ELSE appointments
    /\ medical_records' = IF kind = "medical_record"
                          THEN [medical_records EXCEPT ![1] = soft_delete(@)]
                          ELSE medical_records
    /\ recurring_reservations' =
         IF kind = "recurring_reservation"
         THEN [recurring_reservations EXCEPT ![1] = soft_delete(@)]
         ELSE recurring_reservations
    /\ ret' = [op |-> "soft_delete", kind |-> kind]
    /\ UNCHANGED <<availabilities, schedules, session, companies, users, now, pc, req, slot>>

Restore(kind) ==
    /\ appointments' = IF kind = "appointment"
                       THEN [appointments EXCEPT ![1] = restore(@)]
                       ELSE appointments
    /\ medical_records' = IF kind = "medical_record"
                          THEN [medical_records EXCEPT ![1] = restore(@)]
                          ELSE medical_records
    /\ recurring_reservations' =
         IF kind = "recurring_reservation"
         THEN [recurring_reservations EXCEPT ![1] = restore(@)]
         ELSE recurring_reservations
    /\ ret' = [op |-> "restore", kind |-> kind]
    /\ UNCHANGED <<availabilities, schedules, session, companies, users, now, pc, req, slot>>

Deactivate(kind) ==
    /\ appointments' = IF kind = "appointment"
                       THEN [appointments EXCEPT ![1] = deactivate(@)]
                       ELSE appointments
    /\ medical_records' = IF kind = "medical_record"
                          THEN [medical_records EXCEPT ![1] = deactivate(@)]
                          ELSE medical_records
    /\ recurring_reservations' =
         IF kind = "recurring_reservation"
         THEN [recurring_reservations EXCEPT ![1] = deactivate(@)]
         ELSE recurring_reservations
    /\ ret' = [op |-> "deactivate", kind |-> kind]
    /\ UNCHANGED <<availabilities, schedules, session, companies, users, now, pc, req, slot>>

Activate(kind) ==
    /\ appointments' = IF kind = "appointment"
                       THEN [appointments EXCEPT ![1] = activate(@)]
                       ELSE appointments
    /\ medical_records' = IF kind = "medical_record"
                          THEN [medical_records EXCEPT ![1] = activate(@)]
                          ELSE medical_records
    /\ recurring_reservations' =
         IF kind = "recurring_reservation"
         THEN [recurring_reservations EXCEPT ![1] = activate(@)]
         ELSE recurring_reservations
    /\ ret' = [op |-> "activate", kind |-> kind]
    /\ UNCHANGED <<availabilities, schedules, session, companies, users, now, pc, req, slot>>

\* one entity of each kind, as its create handler stores it
LifecycleInit ==
    /\ appointments = <<FirstBooking>>
    /\ medical_records =
         <<[title |-> "title", status |-> "draft",
            is_confidential |-> FALSE, professional_id |-> 1,
            is_active |-> TRUE, is_deleted |-> FALSE]>>
    /\ availabilities = <<>>
    /\ schedules = <<>>
    /\ recurring_reservations \in {<<reservation>> : reservation \in SampleReservations}
    /\ session = Idle
    /\ companies = <<>>
    /\ users = <<>>
    /\ now = combine(0, Noon)
    /\ pc = [r \in Requests |-> "idle"]
    /\ req = [r \in Requests |-> NoRet]
    /\ slot = Idle
    /\ ret = NoRet

LifecycleNext ==
    \/ \E kind \in EntityKinds : SoftDelete(kind)
    \/ \E kind \in EntityKinds : Restore(kind)
    \/ \E kind \in EntityKinds : Deactivate(kind)
    \/ \E kind \in EntityKinds : Activate(kind)

SpecLifecycle == LifecycleInit /\ [][LifecycleNext]_vars

\* C24: after any sequence of soft_delete, restore, deactivate and activate
\* on an entity, is_deleted implies not is_active.
C24_DeletedImpliesInactive ==
    /\ \A i \in 1..Len(appointments) :
         appointments[i].is_deleted => ~appointments[i].is_active
    /\ \A i \in 1..Len(medical_records) :
         medical_records[i].is_deleted => ~medical_records[i].is_active
    /\ \A i \in 1..Len(recurring_reservations) :
         recurring_reservations[i].is_deleted => ~recurring_reservations[i].is_active

-----------------------------------------------------------------------------
(* SpecTerminal: the two status-changing handlers on one booking that starts
   in any status the status column can hold *)

TerminalInit ==
    /\ \E s \in AppointmentStatus :
         appointments = <<[FirstBooking EXCEPT !.status = s]>>
    /\ medical_records = <<>>
    /\ availabilities = WorkingWeek
    /\ schedules = <<>>
    /\ RestInit

TerminalNext ==
    \/ \E s \in AppointmentStatus, permitted \in BOOLEAN :
         UpdateAppointmentStatus(1, s, permitted)
    \/ \E dto \in AppointmentUpdateDTOs, permitted \in BOOLEAN :
         UpdateAppointment(1, dto, permitted)

SpecTerminal == TerminalInit /\ [][TerminalNext]_vars

\* the statuses with no outgoing transition
TerminalStatuses == {"finished", "pending"}

\* C25: a booking in status FINISHED or PENDING has no accepted outgoing
\* transition: a request to change its status to a different one, through
\* update_appointment_status or update_appointment, is rejected, and its
\* status never changes again.
C25_TerminalStatuses ==
    [][ \A i \in 1..Len(appointments) :
          appointments[i].status \in TerminalStatuses
            => /\ appointments'[i].status = appointments[i].status
               /\ ( /\ ret'.op \in {"update_appointment_status", "update_appointment"}
                    /\ ret'.id = i
                    /\ ret'.status \notin {NoStatus, appointments[i].status} )
                  => ret'.result # "ok" ]_vars

\* update_appointment asking to take a FINISHED booking back to SCHEDULED,
\* by a permitted user, is refused and the booking stays FINISHED
C25_Witness ==
    /\ ret.op = "update_appointment"
    /\ ret.permitted
    /\ ret.before.status = "finished"
    /\ ret.status = "scheduled"
    /\ ret.result = "AppointmentInvalidStatusTransitionError"
    /\ appointments[1].status = "finished"

-----------------------------------------------------------------------------
(* SpecFacility: create_appointment calls, one at a time, for two
   professionals and one room *)

\* both professionals work 09:00-12:00 every day
WorkingWeeks ==
    WorkingWeek \o [d \in 1..DaysPerWeek |-> [WorkingWeek[d] EXCEPT !.resource_id = 2]]

FacilityCreateDTOs ==
    [professional_id : Professionals,
     facility_id : {NoId, 1},
     notes : {NoText},
     appointment_date : {combine(Tomorrow, 540), combine(Tomorrow, 570),
                         combine(Tomorrow, 630)},
     duration_minutes : {60}]

FacilityInit ==
    /\ appointments = <<>>
    /\ medical_records = <<>>
    /\ availabilities = WorkingWeeks
    /\ schedules = <<>>
    /\ RestInit

FacilityNext ==
    \/ /\ Len(appointments) < MaxBookings
       /\ \E dto \in FacilityCreateDTOs, permitted \in BOOLEAN :
            CreateAppointmentCheck(1, dto, permitted)
    \/ CreateAppointmentInsert(1)

SpecFacility == FacilityInit /\ [][FacilityNext]_vars

\* C26: create_appointment with a facility_id is rejected when the facility
\* already has an active, non-deleted booking overlapping the requested
\* interval: a booking it stores overlaps no other live booking of its
\* facility.
C26_FacilityChecked ==
    (ret.op = "create_appointment" /\ ret.result = "ok" /\ ret.dto.facility_id # NoId)
      => \A j \in 1..Len(appointments) :
           ~ /\ j # ret.id
             /\ appointments[j].facility_id = ret.dto.facility_id
             /\ appointments[j].is_active /\ ~appointments[j].is_deleted
             /\ appointments[j].appointment_date
                  < ret.dto.appointment_date + ret.dto.duration_minutes
             /\ ret.dto.appointment_date < booking_end(appointments[j])

-----------------------------------------------------------------------------
(* SpecWindow: bookings of a professional who works evenings, 20:00-23:30 *)

EveningWeek ==
    [d \in 1..DaysPerWeek |->
       availability_to_entity([professional_id |-> 1, day_of_week |-> d - 1,
                               start_time |-> 1200, end_time |-> 1410,
                               is_available |-> TRUE])]

\* starts at 19:30, 20:00, 22:00 and 23:00
EveningStarts == { combine(Tomorrow, t) : t \in {1170, 1200, 1320, 1380} }

WindowCreateDTOs ==
    [professional_id : {1},
     facility_id : {NoId},
     notes : {NoText},
     appointment_date : EveningStarts,
     duration_minutes : {60, 120}]

WindowUpdateDTOs ==
    [status : {NoStatus},
     notes : {NoText},
     appointment_date : EveningStarts \cup {NoDateTime},
     duration_minutes : {NoDuration, 120}]

WindowInit ==
    /\ appointments = <<>>
    /\ medical_records = <<>>
    /\ availabilities = EveningWeek
    /\ schedules = <<>>
    /\ RestInit

WindowNext ==
    \/ /\ Len(appointments) < MaxBookings
       /\ \E dto \in WindowCreateDTOs, permitted \in BOOLEAN :
            CreateAppointmentCheck(1, dto, permitted)
    \/ CreateAppointmentInsert(1)
    \/ \E appointment_id \in 1..MaxBookings, dto \in WindowUpdateDTOs :
         UpdateAppointment(appointment_id, dto, TRUE)

SpecWindow == WindowInit /\ [][WindowNext]_vars

\* the whole interval [start, start + duration) lies inside the window the
\* professional's availability resolves to on start's date
WithinProfessionalWindow(professional_id, appointment_date, duration_minutes) ==
    \A a \in first(get_by_professional_and_day(availabilities, professional_id,
                                               weekday(date_of(appointment_date)))),
       e \in first(exception_query(availabilities, professional_id,
                                   date_of(appointment_date))) :
      LET w == resolve_window(availabilities, a, e)
      IN  /\ w.available
          /\ w.start_time <= time_of(appointment_date)
          /\ time_of(appointment_date) + duration_minutes <= w.end_time

\* C27: create_appointment, and update_appointment with a new
\* appointment_date, succeed only if the whole interval lies inside the
\* effective availability window of the professional on the start's date,
\* an interval running past midnight included.
C27_IntervalInsideWindow ==
    /\ (ret.op = "create_appointment" /\ ret.result = "ok")
         => WithinProfessionalWindow(ret.dto.professional_id,
                                     ret.dto.appointment_date,
                                     ret.dto.duration_minutes)
    /\ ( /\ ret.op = "update_appointment"
         /\ ret.result = "ok"
         /\ ret.appointment_date # NoDateTime )
         => WithinProfessionalWindow(ret.before.professional_id,
                                     ret.appointment_date,
                                     IF ret.duration_minutes # NoDuration
                                     THEN ret.duration_minutes
                                     ELSE ret.before.duration_minutes)

-----------------------------------------------------------------------------
(* SpecRestore: soft delete and restore of companies, users and medical
   records through their services *)

\* CompanyRepository.get_by_id
company_get_by_id(table, company_id) ==
    IF company_id \in 1..Len(table) /\ ~table[company_id].is_deleted
    THEN company_id
    ELSE NoId

\* UserRepository.get_by_id
user_get_by_id(table, user_id) ==
    IF user_id \in 1..Len(table) /\ ~table[user_id].is_deleted
    THEN user_id
    ELSE NoId

\* the lookup of MedicalRecordRepository.restore: the row if soft-deleted
record_get_deleted(table, medical_record_id) ==
    IF medical_record_id \in 1..Len(table) /\ table[medical_record_id].is_deleted
    THEN medical_record_id
    ELSE NoId

\* CompanyService._validate_company_management_permission
validate_company_management_permission(user_id) ==
    LET id == user_get_by_id(users, user_id)
    IN  IF id = NoId THEN "CompanyNotFoundError"
        ELSE IF users[id].profile \notin {"admin", "super"}
             THEN "OnlyAdminCanManageCompanyError"
        ELSE IF ~users[id].is_active \/ users[id].is_deleted
             THEN "CompanyNotActiveError"
        ELSE "ok"

\* the permission check of soft_delete_medical_record and
\* restore_medical_record
validate_record_management_permission(current_user_id) ==
    LET id == user_get_by_id(users, current_user_id)
    IN  IF id = NoId THEN "MedicalRecordPermissionError"
        ELSE IF users[id].profile \notin {"manager", "admin", "super"}
             THEN "MedicalRecordPermissionError"
        ELSE "ok"

\* CompanyService.delete_company
DeleteCompany(company_id, user_id) ==
    /\ LET permission == validate_company_management_permission(user_id)
           id == company_get_by_id(companies, company_id)
           result == IF permission # "ok" THEN permission
                     ELSE IF id = NoId THEN "CompanyNotFoundError"
                     ELSE IF companies[id].is_deleted THEN "CompanyDeletedError"
                     ELSE "ok"
       IN /\ ret' = [op |-> "delete_company", id |-> company_id,
                     permitted |-> (permission = "ok"),
                     was_deleted |-> (company_id \in 1..Len(companies)
                                        /\ companies[company_id].is_deleted),
                     result |-> result]
          /\ companies' = IF result = "ok"
                          THEN [companies EXCEPT ![id] = soft_delete(@)]
                          ELSE companies
    /\ UNCHANGED <<appointments, medical_records, availabilities, schedules,
                   recurring_reservations, session, users, now, pc, req, slot>>

\* CompanyService.restore_company
RestoreCompany(company_id, user_id) ==
    /\ LET permission == validate_company_management_permission(user_id)
           id == company_get_by_id(companies, company_id)
           result == IF permission # "ok" THEN permission
                     ELSE IF id = NoId THEN "CompanyNotFoundError"
                     ELSE IF ~companies[id].is_deleted THEN "CompanyDeletedError"
                     ELSE "ok"
       IN /\ ret' = [op |-> "restore_company", id |-> company_id,
                     permitted |-> (permission = "ok"),
                     was_deleted |-> (company_id \in 1..Len(companies)
                                        /\ companies[company_id].is_deleted),
                     result |-> result]
          /\ companies' = IF result = "ok"
                          THEN [companies EXCEPT ![id] = restore(@)]
                          ELSE companies
    /\ UNCHANGED <<appointments, medical_records, availabilities, schedules,
                   recurring_reservations, session, users, now, pc, req, slot>>

\* UserService.soft_delete_user
SoftDeleteUser(user_id) ==
    /\ LET id == user_get_by_id(users, user_id)
           result == IF id = NoId THEN "UserNotFoundError" ELSE "ok"
       IN /\ ret' = [op |-> "soft_delete_user", id |-> user_id,
                     permitted |-> TRUE,
                     was_deleted |-> (user_id \in 1..Len(users)
                                        /\ users[user_id].is_deleted),
                     result |-> result]
          /\ users' = IF result = "ok"
                      THEN [users EXCEPT ![id] = soft_delete(@)]
                      ELSE users
    /\ UNCHANGED <<appointments, medical_records, availabilities, schedules,
                   recurring_reservations, session, companies, now, pc, req,
                   slot>>

\* UserService.restore_user
RestoreUser(user_id) ==
    /\ LET id == user_get_by_id(users, user_id)
           result == IF id = NoId THEN "UserNotFoundError" ELSE "ok"
       IN /\ ret' = [op |-> "restore_user", id |-> user_id,
                     permitted |-> TRUE,
                     was_deleted |-> (user_id \in 1..Len(users)
                                        /\ users[user_id].is_deleted),
                     result |-> result]
          /\ users' = IF result = "ok"
                      THEN [users EXCEPT ![id] = restore(@)]
                      ELSE users
    /\ UNCHANGED <<appointments, medical_records, availabilities, schedules,
                   recurring_reservations, session, companies, now, pc, req,
                   slot>>

\* MedicalRecordService.soft_delete_medical_record
SoftDeleteMedicalRecord(medical_record_id, current_user_id) ==
    /\ LET id == record_get_by_id(medical_records, medical_record_id)
           permission == validate_record_management_permission(current_user_id)
           result == IF id = NoId THEN "MedicalRecordNotFoundError"
                     ELSE permission
       IN /\ ret' = [op |-> "soft_delete_medical_record",
                     id |-> medical_record_id,
                     permitted |-> (permission = "ok"),
                     was_deleted |-> (medical_record_id \in 1..Len(medical_records)
                                        /\ medical_records[medical_record_id].is_deleted),
                     result |-> result]
          /\ medical_records' = IF result = "ok"
                                THEN [medical_records EXCEPT ![id] = soft_delete(@)]
                                ELSE medical_records
    /\ UNCHANGED <<appointments, availabilities, schedules,
                   recurring_reservations, session, companies, users, now, pc,
                   req, slot>>

\* MedicalRecordService.restore_medical_record: MedicalRecordRepository.restore
\* returns False when it finds no soft-deleted row
RestoreMedicalRecord(medical_record_id, current_user_id) ==
    /\ LET id == record_get_deleted(medical_records, medical_record_id)
           permission == validate_record_management_permission(current_user_id)
           result == IF permission # "ok" THEN permission
                     ELSE IF id = NoId THEN "False"
                     ELSE "ok"
       IN /\ ret' = [op |-> "restore_medical_record",
                     id |-> medical_record_id,
                     permitted |-> (permission = "ok"),
                     was_deleted |-> (medical_record_id \in 1..Len(medical_records)
                                        /\ medical_records[medical_record_id].is_deleted),
                     result |-> result]
          /\ medical_records' = IF result = "ok"
                                THEN [medical_records EXCEPT ![id] = restore(@)]
                                ELSE medical_records
    /\ UNCHANGED <<appointments, availabilities, schedules,
                   recurring_reservations, session, companies, users, now, pc,
                   req, slot>>

\* an admin, a manager and a client; one company; one medical record
RestoreInit ==
    /\ appointments = <<>>
    /\ medical_records =
         <<[title |-> "title", status |-> "draft",
            is_confidential |-> FALSE, professional_id |-> 1,
            is_active |-> TRUE, is_deleted |-> FALSE]>>
    /\ availabilities = <<>>
    /\ schedules = <<>>
    /\ recurring_reservations = <<>>
    /\ session = Idle
    /\ companies = <<[name |-> "company", is_active |-> TRUE, is_deleted |-> FALSE]>>
    /\ users = <<[profile |-> "admin", is_active |-> TRUE, is_deleted |-> FALSE],
                 [profile |-> "manager", is_active |-> TRUE, is_deleted |-> FALSE],
                 [profile |-> "client", is_active |-> TRUE, is_deleted |-> FALSE]>>
    /\ now = combine(0, Noon)
    /\ pc = [r \in Requests |-> "idle"]
    /\ req = [r \in Requests |-> NoRet]
    /\ slot = Idle
    /\ ret = NoRet

RestoreNext ==
    \/ \E company_id \in {1}, user_id \in {1, 2} : DeleteCompany(company_id, user_id)
    \/ \E company_id \in {1}, user_id \in {1, 2} : RestoreCompany(company_id, user_id)
    \/ \E user_id \in {2, 3} : SoftDeleteUser(user_id)
    \/ \E user_id \in {2, 3} : RestoreUser(user_id)
    \/ \E current_user_id \in {2, 3} : SoftDeleteMedicalRecord(1, current_user_id)
    \/ \E current_user_id \in {2, 3} : RestoreMedicalRecord(1, current_user_id)

SpecRestore == RestoreInit /\ [][RestoreNext]_vars

\* C28: for every service that offers a restore operation (medical record,
\* company, user), restore called by a permitted user on a soft-deleted
\* entity succeeds and leaves it with is_deleted = false, visible again to
\* get-by-id.
C28_RestoreSucceeds ==
    /\ (ret.op = "restore_medical_record" /\ ret.was_deleted /\ ret.permitted)
         => /\ ret.result = "ok"
            /\ record_get_by_id(medical_records, ret.id) = ret.id
    /\ (ret.op = "restore_company" /\ ret.was_deleted /\ ret.permitted)
         => /\ ret.result = "ok"
            /\ company_get_by_id(companies, ret.id) = ret.id
    /\ (ret.op = "restore_user" /\ ret.was_deleted /\ ret.permitted)
         => /\ ret.result = "ok"
            /\ user_get_by_id(users, ret.id) = ret.id

-----------------------------------------------------------------------------
(* SpecSequential: the booking handlers of one professional, one call at a
   time, from an empty store *)

\* AppointmentRepository.restore: looks the row up among the soft-deleted
RestoreAppointment(appointment_id) ==
    /\ pc[1] = "idle"
    /\ LET found == /\ appointment_id \in 1..Len(appointments)
                    /\ appointments[appointment_id].is_deleted
       IN /\ ret' = [op |-> "restore_appointment", id |-> appointment_id,
                     result |-> IF found THEN "ok" ELSE "AppointmentNotFoundError"]
          /\ appointments' =
               IF found
               THEN [appointments EXCEPT ![appointment_id] = restore(@)]
               ELSE appointments
    /\ UNCHANGED <<medical_records, availabilities, schedules,
                   recurring_reservations, session, companies, users, now, pc,
                   req, slot>>

SequentialCreateDTOs ==
    [professional_id : {1},
     facility_id : {NoId},
     notes : {NoText},
     appointment_date : {combine(Tomorrow, 540), combine(Tomorrow, 600)},
     duration_minutes : {60}]

SequentialUpdateDTOs ==
    [status : {NoStatus},
     notes : {NoText},
     appointment_date : {NoDateTime, combine(Tomorrow, 540), combine(Tomorrow, 600)},
     duration_minutes : {NoDuration, 120}]

SequentialInit ==
    /\ appointments = <<>>
    /\ medical_records = <<>>
    /\ availabilities = WorkingWeek
    /\ schedules = <<>>
    /\ RestInit

SequentialNext ==
    \/ /\ Len(appointments) < MaxBookings
       /\ \E dto \in SequentialCreateDTOs :
            CreateAppointmentCheck(1, dto, TRUE)
    \/ CreateAppointmentInsert(1)
    \/ \E appointment_id \in 1..MaxBookings, dto \in SequentialUpdateDTOs :
         pc[1] = "idle" /\ UpdateAppointment(appointment_id, dto, TRUE)
    \/ \E appointment_id \in 1..MaxBookings, s \in {"confirmed", "cancelled"} :
         pc[1] = "idle" /\ UpdateAppointmentStatus(appointment_id, s, TRUE)
    \/ \E appointment_id \in 1..MaxBookings :
         pc[1] = "idle" /\ DeleteAppointment(appointment_id, TRUE)
    \/ \E appointment_id \in 1..MaxBookings :
         RestoreAppointment(appointment_id)

SpecSequential == SequentialInit /\ [][SequentialNext]_vars

\* C29: under sequential use from an empty store, no two distinct live
\* bookings of one professional have overlapping half-open intervals.
C29_NoDoubleBooking ==
    \A i, j \in 1..Len(appointments) : ~Overlapping(i, j)

-----------------------------------------------------------------------------
(* The rows a generate call materializes against the bookings of the
   template's two resources *)

\* the live bookings of the table that overlap the half-open interval of row
\* and belong to the facility, or to the professional, of row
FacilityOverlaps(table, row) ==
    { i \in 1..Len(table) :
        /\ table[i].facility_id = row.facility_id
        /\ table[i].is_active /\ ~table[i].is_deleted
        /\ table[i].appointment_date < booking_end(row)
        /\ row.appointment_date < booking_end(table[i]) }

ProfessionalOverlaps(table, row) ==
    { i \in 1..Len(table) :
        /\ table[i].professional_id = row.professional_id
        /\ table[i].is_active /\ ~table[i].is_deleted
        /\ table[i].appointment_date < booking_end(row)
        /\ row.appointment_date < booking_end(table[i]) }

\* C30: every booking a generate call materializes overlaps no existing live
\* booking of the reservation's facility and none of its professional.
C30_MaterializedConflictFree ==
    session.pc \in {"loop", "returned"} =>
      \A k \in 1..Len(session.pending) :
        /\ session.pending[k].facility_id
             = recurring_reservations[session.id].facility_id
        /\ session.pending[k].professional_id
             = recurring_reservations[session.id].professional_id
        /\ FacilityOverlaps(session.before, session.pending[k]) = {}
        /\ ProfessionalOverlaps(session.before, session.pending[k]) = {}

-----------------------------------------------------------------------------
(* SpecRace: concurrent update_appointment_status calls on one booking, each
   request with its own Session; the row is read at get_by_id and written at
   the commit of AppointmentRepository.update *)

\* update_appointment_status up to "appointment.status = status_dto.status":
\* the row is read and the transition validated against the status read
UpdateStatusRead(r, appointment_id, new_status, permitted) ==
    /\ pc[r] = "idle"
    /\ LET result == update_appointment_status_check(appointment_id, new_status,
                                                     permitted)
       IN IF result = "ok"
          THEN /\ pc' = [pc EXCEPT ![r] = "commit"]
               /\ req' = [req EXCEPT ![r] =
                            [op |-> "update_appointment_status",
                             id |-> appointment_id,
                             read |-> appointments[appointment_id].status,
                             status |-> new_status]]
               /\ ret' = ret
          ELSE /\ ret' = [op |-> "update_appointment_status", r |-> r,
                          id |-> appointment_id, status |-> new_status,
                          result |-> result]
               /\ UNCHANGED <<pc, req>>
    /\ UNCHANGED <<appointments, medical_records, availabilities, schedules,
                   recurring_reservations, session, companies, users, now, slot>>

\* AppointmentRepository.update: the commit writes the status the request
\* set (UPDATE appointments SET status = ... WHERE id = ...)
UpdateStatusCommit(r) ==
    /\ pc[r] = "commit"
    /\ appointments' = [appointments EXCEPT ![req[r].id].status = req[r].status]
    /\ ret' = [op |-> "update_appointment_status", r |-> r, id |-> req[r].id,
               status |-> req[r].status, result |-> "ok",
               read |-> req[r].read,
               before |-> appointments[req[r].id].status]
    /\ pc' = [pc EXCEPT ![r] = "idle"]
    /\ req' = [req EXCEPT ![r] = NoRet]
    /\ UNCHANGED <<medical_records, availabilities, schedules,
                   recurring_reservations, session, companies, users, now, slot>>

RaceInit ==
    /\ appointments = <<FirstBooking>>
    /\ medical_records = <<>>
    /\ availabilities = WorkingWeek
    /\ schedules = <<>>
    /\ RestInit

RaceNext ==
    \/ \E r \in Requests, new_status \in AppointmentStatus, permitted \in BOOLEAN :
         UpdateStatusRead(r, 1, new_status, permitted)
    \/ \E r \in Requests : UpdateStatusCommit(r)

SpecRace == RaceInit /\ [][RaceNext]_vars

\* C31: under any interleaving of concurrent status updates of one booking,
\* every status persisted for it is in the allowed set of the status persisted
\* just before it.
C31_PersistedFollowsTable ==
    [][\A i \in 1..Len(appointments) :
         appointments'[i].status # appointments[i].status =>
           validate_status_transition(appointments[i].status,
                                      appointments'[i].status)]_vars

-----------------------------------------------------------------------------
(* The two entry points of a status change, compared under SpecStatus *)

\* C32: the general update and the status update accept the same (current,
\* requested) status pairs, the pair requested = current included:
\* update_appointment with a status (and no new date) is accepted exactly when
\* update_appointment_status accepts that status on the same row, and
\* update_medical_record exactly when update_medical_record_status does.
C32_EntryPointsAgree ==
    /\ (/\ ret.op = "update_appointment"
        /\ ret.before # NoRet /\ ret.permitted
        /\ ret.status # NoStatus
        /\ ret.appointment_date = NoDateTime)
         => (ret.result = "ok"
               <=> validate_status_transition(ret.before.status, ret.status))
    /\ (/\ ret.op = "update_medical_record"
        /\ ret.before # NoRet /\ ret.permitted
        /\ ret.status # NoStatus)
         => (ret.result = "ok"
               <=> is_valid_status_transition(ret.before.status, ret.status))

-----------------------------------------------------------------------------
(* SpecException: exceptions recorded on the weekly rows of one professional
   and one facility *)

\* the update DTOs that record an exception for a date
ExceptionRecords ==
    [start_time : {NoTime}, end_time : {NoTime},
     is_available : {"none", "false"},
     exception_date : {Tomorrow, Tomorrow + DaysPerWeek},
     exception_start_time : {NoTime, 570},
     exception_end_time : {NoTime, 590}]

\* the dates whose resolution is observed: two Tuesdays and two Wednesdays
ObservedDates ==
    {Tomorrow, Tomorrow + 1, Tomorrow + DaysPerWeek, Tomorrow + DaysPerWeek + 1}

\* 09:00-10:00 on the weekday after Tomorrow's
NextDayRow ==
    availability_to_entity([professional_id |-> 1,
                            day_of_week |-> weekday(Tomorrow + 1),
                            start_time |-> 540, end_time |-> 600,
                            is_available |-> TRUE])

ExceptionInit ==
    /\ appointments = <<>>
    /\ medical_records = <<>>
    /\ availabilities = <<WeeklyRow, NextDayRow>>
    /\ schedules = <<FacilityMorning>>
    /\ RestInit

ExceptionNext ==
    \/ \E id \in {1, 2}, dto \in ExceptionRecords :
         UpdateProfessionalAvailability(id, dto, TRUE)
    \/ \E dto \in ExceptionRecords : UpdateFacilitySchedule(1, dto, TRUE)
    \/ \E kind \in {"professional", "facility"} :
         GetAvailableSlotsCall(kind, 1, Tomorrow + DaysPerWeek, 30)
    \/ SlotLoopStep
    \/ SlotLoopReturn

SpecException == ExceptionInit /\ [][ExceptionNext]_vars

\* the windows the code can resolve for a professional, or a facility, on a
\* date: one for each pair of rows the two .first() queries can return
ProfessionalWindows(table, professional_id, target_date) ==
    { resolve_window(table, a, e) :
        a \in first(get_by_professional_and_day(table, professional_id,
                                                weekday(target_date))),
        e \in first(exception_query(table, professional_id, target_date)) }

FacilityWindows(table, facility_id, target_date) ==
    { resolve_window(table, a, e) :
        a \in first(get_by_facility_and_day(table, facility_id,
                                            weekday(target_date))),
        e \in first(exception_query(table, facility_id, target_date)) }

\* C33: recording an exception for date D on a row changes the resolved
\* availability of D only: for every other date the resolved window or
\* unavailability of the resource is the same as before.
C33_ExceptionIsLocal ==
    [][/\ \A i \in 1..Len(availabilities) :
            availabilities'[i] # availabilities[i] =>
              \A d \in ObservedDates \ {availabilities'[i].exception_date} :
                ProfessionalWindows(availabilities', 1, d)
                  = ProfessionalWindows(availabilities, 1, d)
       /\ \A i \in 1..Len(schedules) :
            schedules'[i] # schedules[i] =>
              \A d \in ObservedDates \ {schedules'[i].exception_date} :
                FacilityWindows(schedules', 1, d)
                  = FacilityWindows(schedules, 1, d)]_vars

-----------------------------------------------------------------------------
(* SpecBookable: AppointmentService.get_available_slots followed by
   create_appointment on the slots it returned *)

\* the while loop of ProfessionalAvailabilityRepository.get_available_slots
RECURSIVE slot_loop(_, _, _)
slot_loop(current_time, duration_minutes, end_datetime) ==
    IF slot_loop_condition(current_time, duration_minutes, end_datetime)
    THEN <<<<current_time, current_time + duration_minutes>>>>
           \o slot_loop(current_time + duration_minutes, duration_minutes,
                        end_datetime)
    ELSE <<>>

\* ProfessionalAvailabilityRepository.get_available_slots, given the rows its
\* two .first() queries returned
repository_get_available_slots(table, a, e, target_date, duration_minutes) ==
    LET w == resolve_window(table, a, e)
    IN  IF ~w.available THEN <<>>
        ELSE slot_loop(combine(target_date, w.start_time), duration_minutes,
                       combine(target_date, w.end_time))

\* the filter loop of AppointmentService.get_available_slots
RECURSIVE filter_slots(_, _, _)
filter_slots(slots, professional_id, duration_minutes) ==
    IF slots = <<>> THEN <<>>
    ELSE LET rest == filter_slots(Tail(slots), professional_id, duration_minutes)
         IN  IF get_conflicts(appointments, professional_id, Head(slots)[1],
                              duration_minutes, NoId) = {}
             THEN <<Head(slots)>> \o rest
             ELSE rest

\* AppointmentService.get_available_slots
GetAvailableSlots(professional_id, target_date, duration_minutes, permitted) ==
    /\ slot.pc = "idle"
    /\ \A r \in Requests : pc[r] = "idle"
    /\ \E a \in first(get_by_professional_and_day(availabilities, professional_id,
                                                  weekday(target_date))),
          e \in first(exception_query(availabilities, professional_id,
                                      target_date)) :
         LET slots == repository_get_available_slots(availabilities, a, e,
                                                     target_date, duration_minutes)
             available_slots == filter_slots(slots, professional_id,
                                             duration_minutes)
             result == IF ~permitted THEN "AppointmentPermissionError"
                       ELSE IF slots = <<>> THEN "NoAvailableSlotsError"
                       ELSE IF available_slots = <<>> THEN "NoAvailableSlotsError"
                       ELSE "ok"
         IN ret' = [op |-> "available_slots",
                    professional_id |-> professional_id,
                    target_date |-> target_date,
                    duration_minutes |-> duration_minutes,
                    permitted |-> permitted,
                    slots |-> IF permitted THEN slots ELSE <<>>,
                    available_slots |-> IF result = "ok" THEN available_slots
                                        ELSE <<>>,
                    result |-> result]
    /\ UNCHANGED <<appointments, medical_records, availabilities, schedules,
                   recurring_reservations, session, companies, users, now, pc,
                   req, slot>>

\* exceptions recorded for Tomorrow
BookableExceptions ==
    [start_time : {NoTime}, end_time : {NoTime},
     is_available : {"none", "false"},
     exception_date : {Tomorrow},
     exception_start_time : {NoTime, 600},
     exception_end_time : {NoTime}]

BookableDurations == {60, 90}

BookableStarts == { combine(d, t) : d \in {0, Tomorrow}, t \in {540, 600, 630, 660} }

BookableInit ==
    /\ appointments = <<>>
    /\ medical_records = <<>>
    /\ availabilities = WorkingWeek
    /\ schedules = <<>>
    /\ RestInit

BookableNext ==
    \/ \E id \in {1, 2}, dto \in BookableExceptions :
         UpdateProfessionalAvailability(id, dto, TRUE)
    \/ \E d \in {0, Tomorrow}, duration_minutes \in BookableDurations,
          permitted \in BOOLEAN :
         GetAvailableSlots(1, d, duration_minutes, permitted)
    \/ /\ Len(appointments) < MaxBookings
       /\ \E s \in BookableStarts, duration_minutes \in BookableDurations :
            CreateAppointmentCheck(1,
              [professional_id |-> 1, facility_id |-> NoId, notes |-> NoText,
               appointment_date |-> s, duration_minutes |-> duration_minutes],
              TRUE)
    \/ CreateAppointmentInsert(1)

SpecBookable == BookableInit /\ [][BookableNext]_vars

\* a create_appointment call for a slot the preceding get_available_slots
\* call returned, with the same professional and duration, in the future
BooksReturnedSlot ==
    /\ ret.op = "available_slots"
    /\ ret.result = "ok"
    /\ ret'.op = "create_appointment"
    /\ ret'.dto.professional_id = ret.professional_id
    /\ ret'.dto.duration_minutes = ret.duration_minutes
    /\ ret'.dto.appointment_date > now
    /\ \E k \in 1..Len(ret.available_slots) :
         ret.available_slots[k][1] = ret'.dto.appointment_date

\* C34: every slot get_available_slots returns is bookable: create_appointment
\* for that professional, with the slot's start (in the future) and the same
\* duration, on the unchanged store, passes the conflict check and the
\* availability check; and the call raises NoAvailableSlotsError exactly when
\* no generated slot is free of conflicts.
C34_ReturnedSlotsAreBookable ==
    /\ [][BooksReturnedSlot => ret'.result = "pass"]_vars
    /\ []((ret.op = "available_slots" /\ ret.permitted) =>
            (ret.result = "NoAvailableSlotsError"
               <=> \A k \in 1..Len(ret.slots) :
                     get_conflicts(appointments, ret.professional_id,
                                   ret.slots[k][1], ret.duration_minutes,
                                   NoId) # {}))

-----------------------------------------------------------------------------
(* The preview mode of generation, compared with the materializing mode *)

\* what the caller of a generate call gets back
Report(outcome) ==
    [result |-> outcome.result, reported |-> outcome.reported,
     generated |-> outcome.generated, conflicts |-> outcome.conflicts]

\* the step is a generate call with create_appointments = false
PreviewCall ==
    /\ ret'.op = "generate_appointments_from_reservation"
    /\ ret' # ret
    /\ ~ret'.generation_dto.create_appointments

\* C35: a generate call with create_appointments = false is a pure preview:
\* it returns the report the same call with create_appointments = true
\* returns on the same state, and leaves the persisted appointments and the
\* reservation unchanged.
C35_PreviewIsPure ==
    [][PreviewCall =>
         /\ appointments' = appointments
         /\ recurring_reservations' = recurring_reservations
         /\ Report(ret')
              = Report(generate_appointments_from_reservation(
                         ret'.id,
                         [ret'.generation_dto EXCEPT !.create_appointments = TRUE],
                         ret'.permitted, ret'.failing))]_vars

-----------------------------------------------------------------------------
(* The record status machine as a graph *)

\* the statuses _is_valid_status_transition accepts from current_status
record_successors(current_status) ==
    { s \in MedicalRecordStatus : is_valid_status_transition(current_status, s) }

\* the statuses reachable from the frontier through one or more accepted
\* transitions, added to seen
RECURSIVE record_reachable(_, _)
record_reachable(frontier, seen) ==
    LET next == UNION { record_successors(s) : s \in frontier } \ seen
    IN  IF next = {} THEN seen
        ELSE record_reachable(next, seen \cup next)

\* C36: no medical record can get stuck: the status of every stored record
\* has at least one accepted outgoing transition, and each of the eight
\* statuses is reachable from it through accepted transitions.
C36_NoRecordStuck ==
    \A i \in 1..Len(medical_records) :
      /\ record_successors(medical_records[i].status) # {}
      /\ record_reachable({medical_records[i].status}, {}) = MedicalRecordStatus

\* a record that was archived has been taken back to IN_PROGRESS by the
\* handler
C36_Witness ==
    /\ ret.op = "update_medical_record_status"
    /\ ret.result = "ok"
    /\ ret.before.status = "archived"
    /\ medical_records[ret.id].status = "in_progress"
    /\ record_reachable({"archived"}, {}) = MedicalRecordStatus

-----------------------------------------------------------------------------
(* SpecPending: one booking from its creation through status changes, and a
   generate call building its rows *)

PendingCreateDTO ==
    [professional_id |-> 1, facility_id |-> NoId, notes |-> NoText,
     appointment_date |-> combine(Tomorrow, 540), duration_minutes |-> 60]

\* update_appointment requests that carry a status, or nothing
PendingUpdates ==
    [status : AppointmentStatus \cup {NoStatus},
     notes : {NoText},
     appointment_date : {NoDateTime},
     duration_minutes : {NoDuration}]

\* a reservation for Tuesdays 09:30 in facility 1
PendingReservation ==
    [day_of_week |-> weekday(Tomorrow), start_time |-> HalfPastNine,
     duration_minutes |-> 60, start_date |-> Tomorrow, end_date |-> NoDate,
     professional_id |-> 1, facility_id |-> 1,
     is_active |-> TRUE, is_deleted |-> FALSE]

PendingInit ==
    /\ appointments = <<>>
    /\ medical_records = <<>>
    /\ availabilities = WorkingWeek
    /\ schedules = <<>>
    /\ recurring_reservations = <<PendingReservation>>
    /\ session = Idle
    /\ companies = <<>>
    /\ users = <<>>
    /\ now = combine(0, Noon)
    /\ pc = [r \in Requests |-> "idle"]
    /\ req = [r \in Requests |-> NoRet]
    /\ slot = Idle
    /\ ret = NoRet

PendingNext ==
    \/ /\ appointments = <<>>
       /\ \E permitted \in BOOLEAN :
            CreateAppointmentCheck(1, PendingCreateDTO, permitted)
    \/ CreateAppointmentInsert(1)
    \/ \E s \in AppointmentStatus, permitted \in BOOLEAN :
         UpdateAppointmentStatus(1, s, permitted)
    \/ \E dto \in PendingUpdates : UpdateAppointment(1, dto, TRUE)
    \/ \E create_appointments \in BOOLEAN :
         GenerateCall(1, [start_date |-> Tomorrow, end_date |-> Tomorrow,
                          create_appointments |-> create_appointments], TRUE)
    \/ GenerateLoopStep(FALSE)
    \/ GenerateCommit

SpecPending == PendingInit /\ [][PendingNext]_vars

\* C37: a booking created by create_appointment or built by recurrence
\* generation starts in SCHEDULED, and no stored booking ever has status
\* PENDING: no accepted status change enters it.
C37_NeverPending ==
    /\ \A i \in 1..Len(appointments) : appointments[i].status # "pending"
    /\ (ret.op = "create_appointment" /\ ret.result = "ok")
         => appointments[ret.id].status = "scheduled"
    /\ session.pc \in {"loop", "returned"}
         => \A k \in 1..Len(session.pending) :
              session.pending[k].status = "scheduled"
    /\ (/\ ret.op \in {"update_appointment_status", "update_appointment"}
        /\ ret.status = "pending")
         => ret.result # "ok"

\* a created booking taken from SCHEDULED to CONFIRMED, for which PENDING is
\* then requested and refused
C37_Witness ==
    /\ Len(appointments) = 1
    /\ appointments[1].status = "confirmed"
    /\ ret.op = "update_appointment_status"
    /\ ret.permitted
    /\ ret.status = "pending"
    /\ ret.result = "AppointmentInvalidStatusTransitionError"

-----------------------------------------------------------------------------
(* SpecReservation: create_recurring_reservation and
   update_recurring_reservation on the stored templates *)

MaxReservations == 2

\* None for an optional time text of a DTO
NoClock == <<"None">>

\* bool(text) of an optional text: None and the empty text are false
truthy(text) == text # NoClock /\ text # <<>>

\* the two int() calls on the parts of one time text succeed
time_parts_parse(text) ==
    LET parts == split(text, ":")
    IN  Len(parts) >= 2 /\ parts[1] # <<>> /\ parts[2] # <<>>

\* _validate_time_format: TRUE when it returns, FALSE when it raises
validate_time_format(start_time, end_time) ==
    /\ time_parts_parse(start_time)
    /\ time_parts_parse(end_time)
    /\ LET start_parts == split(start_time, ":")
           end_parts == split(end_time, ":")
           start_hour == int(start_parts[1])
           start_minute == int(start_parts[2])
           end_hour == int(end_parts[1])
           end_minute == int(end_parts[2])
       IN  /\ 0 <= start_hour /\ start_hour <= 23
           /\ 0 <= start_minute /\ start_minute <= 59
           /\ 0 <= end_hour /\ end_hour <= 23
           /\ 0 <= end_minute /\ end_minute <= 59
           /\ ~(start_hour > end_hour
                \/ (start_hour = end_hour /\ start_minute >= end_minute))

\* the RecurringReservation row create_recurring_reservation builds
reservation_to_entity(dto) ==
    [day_of_week |-> dto.day_of_week,
     start_time |-> dto.start_time, end_time |-> dto.end_time,
     duration_minutes |-> dto.duration_minutes,
     start_date |-> dto.start_date, end_date |-> dto.end_date,
     professional_id |-> dto.professional_id, facility_id |-> dto.facility_id,
     is_active |-> TRUE, is_deleted |-> FALSE]

\* the field assignments of update_recurring_reservation
reservation_update(reservation, dto) ==
    [reservation EXCEPT
       !.start_time = IF dto.start_time # NoClock THEN dto.start_time ELSE @,
       !.end_time = IF dto.end_time # NoClock THEN dto.end_time ELSE @,
       !.start_date = IF dto.start_date # NoDate THEN dto.start_date ELSE @,
       !.end_date = IF dto.end_date # NoDate THEN dto.end_date ELSE @]

\* create_recurring_reservation up to the constructor call
create_recurring_reservation_check(dto, permitted) ==
    IF ~permitted THEN "FacilityPermissionError"
    ELSE IF facility_get_by_id(dto.facility_id) = NoId THEN "FacilityNotFoundError"
    ELSE IF ~validate_time_format(dto.start_time, dto.end_time) THEN "ValueError"
    ELSE IF dto.end_date # NoDate /\ dto.start_date > dto.end_date
         THEN "ValueError"
    ELSE "ok"

\* update_recurring_reservation up to the commit; the time format is
\* validated, on the updated entity, only when the DTO carries a time
update_recurring_reservation_check(reservation_id, dto, permitted) ==
    IF reservation_query(recurring_reservations, reservation_id) = NoId
    THEN "FacilityNotFoundError"
    ELSE IF ~permitted THEN "FacilityPermissionError"
    ELSE LET updated == reservation_update(recurring_reservations[reservation_id],
                                           dto)
         IN  IF /\ truthy(dto.start_time) \/ truthy(dto.end_time)
                /\ ~validate_time_format(updated.start_time, updated.end_time)
             THEN "ValueError"
             ELSE "ok"

\* RecurringReservationService.create_recurring_reservation
CreateRecurringReservation(dto, permitted) ==
    /\ LET result == create_recurring_reservation_check(dto, permitted)
       IN /\ ret' = [op |-> "create_recurring_reservation",
                     id |-> IF result = "ok" THEN Len(recurring_reservations) + 1
                            ELSE NoId,
                     permitted |-> permitted, result |-> result]
          /\ recurring_reservations' =
               IF result = "ok"
               THEN Append(recurring_reservations, reservation_to_entity(dto))
               ELSE recurring_reservations
    /\ UNCHANGED <<appointments, medical_records, availabilities, schedules,
                   session, companies, users, now, pc, req, slot>>

\* RecurringReservationService.update_recurring_reservation; an exception
\* leaves the assignments uncommitted and the Session is closed
UpdateRecurringReservation(reservation_id, dto, permitted) ==
    /\ LET result == update_recurring_reservation_check(reservation_id, dto,
                                                        permitted)
       IN /\ ret' = [op |-> "update_recurring_reservation",
                     id |-> reservation_id, dto |-> dto,
                     permitted |-> permitted, result |-> result]
          /\ recurring_reservations' =
               IF result = "ok"
               THEN [recurring_reservations EXCEPT ![reservation_id] =
                       reservation_update(@, dto)]
               ELSE recurring_reservations
    /\ UNCHANGED <<appointments, medical_records, availabilities, schedules,
                   session, companies, users, now, pc, req, slot>>

ReservationCreates ==
    [day_of_week : {weekday(Tomorrow)},
     start_time : {HalfPastNine, TwoPM, <<>>},
     end_time : {HalfPastNine, TwoPM},
     duration_minutes : {60},
     start_date : {Tomorrow, LastDate},
     end_date : {NoDate, Tomorrow},
     professional_id : {1},
     facility_id : {1}]

ReservationUpdates ==
    [start_time : {NoClock, TwoPM, <<>>},
     end_time : {NoClock, HalfPastNine},
     start_date : {NoDate, LastDate},
     end_date : {NoDate, Tomorrow}]

ReservationInit ==
    /\ appointments = <<>>
    /\ medical_records = <<>>
    /\ availabilities = <<>>
    /\ schedules = <<>>
    /\ RestInit

ReservationNext ==
    \/ /\ Len(recurring_reservations) < MaxReservations
       /\ \E dto \in ReservationCreates, permitted \in BOOLEAN :
            CreateRecurringReservation(dto, permitted)
    \/ \E reservation_id \in 1..MaxReservations, dto \in ReservationUpdates,
          permitted \in BOOLEAN :
         UpdateRecurringReservation(reservation_id, dto, permitted)

SpecReservation == ReservationInit /\ [][ReservationNext]_vars

\* the two conditions on a stored reservation
WellFormedReservation(reservation) ==
    /\ validate_time_format(reservation.start_time, reservation.end_time)
    /\ reservation.end_date # NoDate
         => reservation.start_date <= reservation.end_date

\* C38: after any sequence of create and update calls every stored
\* non-deleted reservation has start_time strictly before end_time and, when
\* end_date is set, start_date <= end_date; and a rejected update leaves the
\* stored reservations unchanged.
C38_ReservationsWellFormed ==
    /\ [](\A i \in 1..Len(recurring_reservations) :
            ~recurring_reservations[i].is_deleted
              => WellFormedReservation(recurring_reservations[i]))
    /\ [][(ret'.op = "update_recurring_reservation" /\ ret'.result # "ok")
            => recurring_reservations' = recurring_reservations]_vars

(* SpecConfidential: the handlers that write is_confidential, on one record *)
(* created by professional 1                                               *)

\* MedicalRecordService.update_medical_record_confidentiality up to the
\* repository update
update_medical_record_confidentiality_check(medical_record_id, user) ==
    LET id == record_get_by_id(medical_records, medical_record_id)
    IN  IF id = NoId THEN "MedicalRecordNotFoundError"
        ELSE IF user = NoUser THEN "MedicalRecordPermissionError"
        ELSE IF user.profile \notin {"manager", "admin", "super"}
             THEN "MedicalRecordPermissionError"
        ELSE "ok"

\* MedicalRecordService.update_medical_record_confidentiality
UpdateMedicalRecordConfidentiality(medical_record_id, is_confidential, user) ==
    /\ slot.pc = "idle"
    /\ LET result == update_medical_record_confidentiality_check(medical_record_id,
                                                                 user)
           id == record_get_by_id(medical_records, medical_record_id)
       IN /\ ret' = [op |-> "update_medical_record_confidentiality",
                     id |-> medical_record_id,
                     profile |-> IF user = NoUser THEN "none" ELSE user.profile,
                     result |-> result]
          /\ medical_records' =
               IF id = NoId THEN medical_records
               ELSE [medical_records EXCEPT ![id] =
                       row_after(@, [@ EXCEPT !.is_confidential = is_confidential],
                                 result)]
    /\ UNCHANGED <<appointments, availabilities, schedules, recurring_reservations, session, companies, users, now, pc, req, slot>>

\* the users whose profile is PROFESSIONAL: the creator of the record and
\* a colleague
ProfessionalUsers ==
    {user \in Users : user.profile = "professional"}

ConfidentialInit ==
    /\ appointments = <<>>
    /\ medical_records =
         <<[title |-> "title", status |-> "draft",
            is_confidential |-> FALSE, professional_id |-> 1,
            is_active |-> TRUE, is_deleted |-> FALSE]>>
    /\ availabilities = WorkingWeek
    /\ schedules = <<>>
    /\ RestInit

\* update_medical_record and update_medical_record_status are requested by
\* professionals only; update_medical_record_confidentiality by anyone
ConfidentialNext ==
    \/ \E dto \in MedicalRecordUpdateDTOs, user \in ProfessionalUsers :
         UpdateMedicalRecord(1, dto, user)
    \/ \E s \in MedicalRecordStatus, user \in ProfessionalUsers :
         UpdateMedicalRecordStatus(1, s, user)
    \/ \E flag \in BOOLEAN, user \in Users \cup {NoUser} :
         UpdateMedicalRecordConfidentiality(1, flag, user)

SpecConfidential == ConfidentialInit /\ [][ConfidentialNext]_vars

\* C39: the stored is_confidential of a record changes only in a call of
\* update_medical_record_confidentiality made by a MANAGER, ADMIN or SUPER;
\* no request of a PROFESSIONAL, update_medical_record on a record the
\* professional created included, changes it
C39_ConfidentialityByManagersOnly ==
    [][\A i \in 1..Len(medical_records) :
         medical_records'[i].is_confidential # medical_records[i].is_confidential
           => /\ ret'.op = "update_medical_record_confidentiality"
              /\ ret'.profile \in {"manager", "admin", "super"}]_vars

=============================================================================
